---- MODULE Spec2Model ----
(***************************************************************************)
(* State-machine model of the EternalSentinel vault ledger                 *)
(* (src/contract/src/EternalSentinel.ts).                                  *)
(*                                                                         *)
(* One action per contract entry point.  Every entry point either          *)
(* completes or throws Revert; the host discards all storage writes of a   *)
(* reverted call, so a reverted call leaves the ledger as it was and only  *)
(* its outcome (the variable `last`) is observable.                        *)
(*                                                                         *)
(* Addresses are byte sequences (Uint8Array); the contract stores them as  *)
(* the big-endian u256 of their bytes (addressToU256).  Amounts in         *)
(* calldata range over the whole of u256, so that the SafeMath overflow    *)
(* branches are reached at the real width.                                 *)
(*                                                                         *)
(* The frontend is modelled next to the contract: the useSentinel hook     *)
(* (status, loading, its polls and write operations) and the vault         *)
(* creation flow of App, one action per stretch of code between awaits.    *)
(***************************************************************************)
EXTENDS Integers, Sequences, FiniteSets, TLC

\* ---- Program constants --------------------------------------------------
TIER_1_BLOCKS == 26280
TIER_2_BLOCKS == 52560
TIER_1_BPS == 1000
BPS_DENOMINATOR == 10000
STATUS_UNINITIALIZED == 0
STATUS_ACTIVE == 1
STATUS_TIER1_RELEASED == 2
STATUS_FINALIZED == 3
DEFAULT_FEE == 10000

\* ---- Bounds of the model ------------------------------------------------
\* Number of successful deposits explored (over all vaults).
MaxDeposits == 2
\* A block height shortly before the tier-1 threshold (spec scenario 6).
EarlyBlock == 26000

\* ---- Input domains ------------------------------------------------------
ZeroAddress == <<0, 0>>
Alice == <<0, 1>>
Bob == <<0, 2>>
Carol == <<1, 0>>
\* Transaction senders (Blockchain.tx.sender is never the zero address).
Callers == {Alice, Bob}
\* Addresses that can appear in calldata.
Addresses == {ZeroAddress, Alice, Bob, Carol}
\* The account that deployed the contract.
Deployer == Carol
\* Vault ids whose storage slots are modelled, and that calls are addressed to.
VaultIds == {1, 2}
\* Ids createVault hands out under Spec: one vault is created, id 2 stays
\* an id that was never created.
CreatableIds == {1}
\* ---- u256 ----------------------------------------------------------------
\* A u256 in calldata is written max * (2^256 - 1) + n:
\* [max |-> 0, n |-> 9] is 9, [max |-> 1, n |-> 0] is u256.Max and
\* [max |-> 1, n |-> -9] is u256.Max - 9.  The n part is far below 2^256 - 1
\* in absolute value, so a sum or product of such values is compared with
\* 2^256 - 1 by its max part first.  The entitlements are stored as plain
\* integers, since an amount that recalcTiers splits has max = 0; the
\* cumulative deposit, which _deposit stores before recalcTiers runs, is
\* stored in its two parts.
u256(n) == [max |-> 0, n |-> n]
U256_MAX == [max |-> 1, n |-> 0]
U256Add(a, b) == [max |-> a.max + b.max, n |-> a.n + b.n]
U256Sub(a, b) == [max |-> a.max - b.max, n |-> a.n - b.n]

DepositAmounts ==
    {u256(0), u256(1), u256(9), u256(1000000),
     U256Sub(U256_MAX, u256(9)), U256_MAX}
\* Block heights the host reports.
BlockHeights ==
    {0, EarlyBlock, TIER_1_BLOCKS - 1, TIER_1_BLOCKS, 2 * EarlyBlock,
     EarlyBlock + TIER_1_BLOCKS, TIER_2_BLOCKS - 1, TIER_2_BLOCKS,
     TIER_2_BLOCKS + 1}

VARIABLES
    vaultOwner,        \* vaultId -> owner (u256)
    vaultBeneficiary,  \* vaultId -> beneficiary (u256)
    vaultStatus,       \* vaultId -> status code
    vaultHeartbeat,    \* vaultId -> block of creation / last check-in
    vaultDeposited,    \* vaultId -> cumulative deposit, its part n
    vaultDepositedMax, \* vaultId -> cumulative deposit, its part max
    vaultTier1Amt,     \* vaultId -> tier-1 entitlement
    vaultTier2Amt,     \* vaultId -> tier-2 entitlement
    ownerVaults,       \* owner -> (index -> vaultId)
    ownerVaultCount,   \* owner -> number of vaults created
    nextVaultId,
    feeAmount,
    feeRecipient,
    totalVaults,
    blockNumber,       \* Blockchain.block.number
    last,              \* outcome of the most recent call in the current block
    depositCalls,      \* number of successful deposits so far (bounds the model)
    hookStatus,        \* useSentinel: <<>> (null) or <<the last status fetched>>
    loading,           \* useSentinel: an operation of the hook is running
    error,             \* useSentinel: "null" or the message of the last failure
    isOwner,           \* useSentinel: the wallet owns the selected vault
    refreshStatusCalls,   \* polls of refreshStatus awaiting _getStatus: their vault ids
    sendTxCalls,       \* write call of the hook -> [pc, op, vaultId, amount, address]
    createVaultCall,   \* useSentinel: the call of createVault in progress
    vaultIds,          \* App: the wallet's vault ids as last fetched
    vaultIdsLoaded,    \* App: the load on connect has finished
    selectedVaultId,   \* App: the vault shown, 0 for null
    vaultTxSubmitted,  \* App: a createVault transaction awaits confirmation
    pendingVaultId,    \* App: the vault id awaited by the poll, 0 for null
    creatingVault,     \* App: handleCreateVault is running
    showCreateForm,    \* App: the create form was opened from the list
    checkInSubmitting, \* App: a check-in is being sent
    checkInSubmitted,  \* App: the check-in button shows 'Submitted'
    depositSubmitting, \* App: a deposit is being sent
    fetchCalls,        \* calls of fetchVaultIdsForOwner awaiting an answer
    cardLoading,       \* VaultListPage: the vaults whose card awaits its status
    createVaultTx,     \* the createVault transaction the App has sent
    connected,         \* useWalletConnect: a wallet is connected
    effectDeps,        \* the dependencies the effects last ran with
    pollCleared        \* the confirmation poll has cleared its interval

ledger ==
    <<vaultOwner, vaultBeneficiary, vaultStatus, vaultHeartbeat, vaultDeposited,
      vaultDepositedMax, vaultTier1Amt, vaultTier2Amt, ownerVaults,
      ownerVaultCount, nextVaultId, feeAmount, feeRecipient, totalVaults>>

\* The state of the frontend: the useSentinel hook and the App component.
frontend ==
    <<hookStatus, loading, error, isOwner, refreshStatusCalls, sendTxCalls,
      createVaultCall, vaultIds, vaultIdsLoaded, selectedVaultId,
      vaultTxSubmitted, pendingVaultId, creatingVault, showCreateForm,
      checkInSubmitting, checkInSubmitted, depositSubmitting, fetchCalls,
      cardLoading, createVaultTx, connected, effectDeps, pollCleared>>

vars == <<ledger, blockNumber, last, depositCalls, frontend>>

\* ---- Helpers --------------------------------------------------------------

\* u256.fromUint8ArrayBE: the big-endian value of a byte sequence.
RECURSIVE fromUint8ArrayBE(_)
fromUint8ArrayBE(bytes) ==
    IF bytes = <<>> THEN 0
    ELSE fromUint8ArrayBE(SubSeq(bytes, 1, Len(bytes) - 1)) * 256 + bytes[Len(bytes)]

addressToU256(addr) == fromUint8ArrayBE(addr)

\* Address.isZero
isZero(addr) == \A i \in 1..Len(addr) : addr[i] = 0

\* Blocks elapsed since lastBeat at block `current`, clamped to 0.
\* Variant: the unsigned subtraction is not guarded and wraps around when
\* the clock is below the heartbeat (the variant wraps at 2^30; any wrapped
\* difference is far above both timeouts, as it is at the width of u64).
elapsedSince_Wrapping(lastBeat, current) ==
    (current - lastBeat + 1073741824) % 1073741824

elapsedSince(lastBeat, current) ==
    IF current >= lastBeat THEN current - lastBeat ELSE 0

\* SafeMath: each operation reverts instead of wrapping.
\* SafeMath.add(a, b) throws when a + b exceeds 2^256 - 1.
AddOverflows(a, b) ==
    LET c == U256Add(a, b)
    IN  c.max > 1 \/ (c.max = 1 /\ c.n > 0)
\* Variant: the product is formed without the overflow check.
MulOverflows_Unchecked(a, b) == FALSE

\* SafeMath.mul(a, b) for a u256 a and a factor b throws when a * b exceeds
\* 2^256 - 1.
MulOverflows(a, b) ==
    a.max * b > 1 \/ (a.max * b = 1 /\ a.n > 0)

\* floor(a * b / c), by quotient and remainder of a so that the product
\* stays within the integers of the checker.
MulDiv(a, b, c) == (a \div c) * b + ((a % c) * b) \div c

\* The tier split recalcTiers stores for a new total.
Tier1Of(newTotal) == MulDiv(newTotal, TIER_1_BPS, BPS_DENOMINATOR)
\* Variant: the remainder computed on its own, dividing before multiplying.
Tier2Of_DivFirst(newTotal) == (newTotal \div 10) * 9
Tier2Of(newTotal) == newTotal - Tier1Of(newTotal)

Outcome(op, sender, vaultId, arg, err, ret) ==
    [op |-> op, sender |-> sender, vaultId |-> vaultId, arg |-> arg,
     err |-> err, ret |-> ret]

\* ---- Frontend: initial state -------------------------------------------------
\* The wallet connected to the frontend.
Wallet == Alice

\* The write calls of the hook that may be running at once, and the requests
\* of a kind (refreshStatus of the effect, fetchVaultIdsForOwner of a caller)
\* that may be awaiting their answer when a further one is made.
MaxSendTx == 2
MaxPolls == 1
\* The write operations the App scenario has running at once.
MaxAppSendTx == 1
SendTxIds == 1..MaxSendTx

\* useState initial values of useSentinel and App, with the wallet connected:
\* the effect that loads the wallet's vault ids has made its request, no
\* transaction has been made yet.
InitFrontend ==
    /\ hookStatus = <<>>
    /\ loading = FALSE
    /\ error = "null"
    /\ isOwner = FALSE
    /\ refreshStatusCalls = <<>>
    /\ sendTxCalls =
          [i \in SendTxIds |->
              [pc |-> "idle", op |-> "none", vaultId |-> 0, amount |-> u256(0),
               address |-> ZeroAddress]]
    /\ createVaultCall = [pc |-> "idle", beneficiary |-> ZeroAddress, newVaultId |-> 0]
    /\ vaultIds = <<>>
    /\ vaultIdsLoaded = FALSE
    /\ selectedVaultId = 0
    /\ vaultTxSubmitted = FALSE
    /\ pendingVaultId = 0
    /\ creatingVault = FALSE
    /\ showCreateForm = FALSE
    /\ checkInSubmitting = FALSE
    /\ checkInSubmitted = FALSE
    /\ depositSubmitting = FALSE
    /\ fetchCalls = <<[then |-> "connect", pc |-> "count", count |-> 0, ids |-> <<>>,
                       pendingVaultId |-> 0]>>
    /\ cardLoading = {}
    /\ createVaultTx = [pc |-> "none", beneficiary |-> ZeroAddress, vaultId |-> 0]
    /\ connected = TRUE
    /\ effectDeps = [vaultId |-> 0, connected |-> TRUE, vaultTxSubmitted |-> FALSE,
                     pendingVaultId |-> 0]
    /\ pollCleared = FALSE

\* ---- Deployment -----------------------------------------------------------
Init ==
    /\ vaultOwner = [v \in VaultIds |-> 0]
    /\ vaultBeneficiary = [v \in VaultIds |-> 0]
    /\ vaultStatus = [v \in VaultIds |-> STATUS_UNINITIALIZED]
    /\ vaultHeartbeat = [v \in VaultIds |-> 0]
    /\ vaultDeposited = [v \in VaultIds |-> 0]
    /\ vaultDepositedMax = [v \in VaultIds |-> 0]
    /\ vaultTier1Amt = [v \in VaultIds |-> 0]
    /\ vaultTier2Amt = [v \in VaultIds |-> 0]
    /\ ownerVaults = [o \in Callers |-> [i \in 0..(Cardinality(VaultIds) - 1) |-> 0]]
    /\ ownerVaultCount = [o \in Callers |-> 0]
    /\ nextVaultId = 1
    /\ feeAmount = DEFAULT_FEE
    /\ feeRecipient = Deployer
    /\ totalVaults = 0
    /\ blockNumber = 0
    /\ last = Outcome("onDeployment", Deployer, 0, 0, "ok", 0)
    /\ depositCalls = 0
    /\ InitFrontend

\* Variant: the host keeps what a call had stored when it threw.
revertOnError_KeepsWrites(before, written) == written

\* The host's revertOnError, to which the contract's abort handler hands every
\* thrown Revert: the call is aborted and what it had stored by then
\* (`written`) is discarded, so that the storage is as before the call.  The
\* runtime is not part of the sources; this is the propagation policy of the
\* specification (every error aborts the call atomically).
revertOnError(before, written) == before

\* A call that throws Revert before it has stored anything: the error is
\* reported.
Rejected(op, sender, vaultId, arg, err) ==
    /\ last' = Outcome(op, sender, vaultId, arg, err, 0)
    /\ UNCHANGED <<ledger, blockNumber, depositCalls>>


\* ---- Guards ---------------------------------------------------------------

\* Variant: the ownership check lets every sender through.
requireVaultOwner_Any(vaultId, sender) == TRUE

\* requireVaultOwner passes: the stored owner is the sender.
requireVaultOwner(vaultId, sender) ==
    vaultOwner[vaultId] = addressToU256(sender)

\* Variant: any vault that exists passes, whatever its status.
requireVaultStatus_Exists(vaultId, expected) ==
    vaultStatus[vaultId] # STATUS_UNINITIALIZED

\* requireVaultStatus passes: the vault is in the expected status.
requireVaultStatus(vaultId, expected) ==
    vaultStatus[vaultId] = expected

\* ---- createVault ------------------------------------------------------------
\* Variant: one vault per address, a second creation by the same caller fails.
CreateVaultError_OncePerAddress(sender, beneficiary) ==
    IF isZero(beneficiary) THEN "InvalidBeneficiary"
    ELSE IF beneficiary = sender THEN "InvalidBeneficiary"
    ELSE IF ownerVaultCount[sender] > 0 THEN "VaultAlreadyExists"
    ELSE IF AddOverflows(u256(nextVaultId), u256(1)) THEN "ArithmeticOverflow"
    ELSE "ok"

CreateVaultError(sender, beneficiary) ==
    IF isZero(beneficiary) THEN "InvalidBeneficiary"
    ELSE IF beneficiary = sender THEN "InvalidBeneficiary"
    ELSE IF AddOverflows(u256(nextVaultId), u256(1)) THEN "ArithmeticOverflow"
    ELSE "ok"

\* Variant: the id counter is not advanced, so the next creation reuses the id.
CreateVault_ReusesId(sender, beneficiary) ==
    LET err == CreateVaultError(sender, beneficiary)
        vaultId == nextVaultId
        count == ownerVaultCount[sender]
    IN  IF err # "ok"
        THEN Rejected("createVault", sender, 0, beneficiary, err)
        ELSE /\ vaultOwner' = [vaultOwner EXCEPT ![vaultId] = addressToU256(sender)]
             /\ vaultBeneficiary' =
                    [vaultBeneficiary EXCEPT ![vaultId] = addressToU256(beneficiary)]
             /\ vaultStatus' = [vaultStatus EXCEPT ![vaultId] = STATUS_ACTIVE]
             /\ vaultHeartbeat' = [vaultHeartbeat EXCEPT ![vaultId] = blockNumber]
             /\ vaultDeposited' = [vaultDeposited EXCEPT ![vaultId] = 0]
             /\ vaultDepositedMax' = [vaultDepositedMax EXCEPT ![vaultId] = 0]
             /\ vaultTier1Amt' = [vaultTier1Amt EXCEPT ![vaultId] = 0]
             /\ vaultTier2Amt' = [vaultTier2Amt EXCEPT ![vaultId] = 0]
             /\ ownerVaults' = [ownerVaults EXCEPT ![sender][count] = vaultId]
             /\ ownerVaultCount' = [ownerVaultCount EXCEPT ![sender] = count + 1]
             /\ totalVaults' = totalVaults + 1
             /\ last' = Outcome("createVault", sender, vaultId, beneficiary, "ok", vaultId)
             /\ UNCHANGED <<nextVaultId, feeAmount, feeRecipient, blockNumber,
                            depositCalls>>

\* Variant: the owner's vault count is not advanced, so the owner's next
\* creation overwrites the index entry of the previous one.
CreateVault_CountNotBumped(sender, beneficiary) ==
    LET err == CreateVaultError(sender, beneficiary)
        vaultId == nextVaultId
        count == ownerVaultCount[sender]
    IN  IF err # "ok"
        THEN Rejected("createVault", sender, 0, beneficiary, err)
        ELSE /\ nextVaultId' = vaultId + 1
             /\ vaultOwner' = [vaultOwner EXCEPT ![vaultId] = addressToU256(sender)]
             /\ vaultBeneficiary' =
                    [vaultBeneficiary EXCEPT ![vaultId] = addressToU256(beneficiary)]
             /\ vaultStatus' = [vaultStatus EXCEPT ![vaultId] = STATUS_ACTIVE]
             /\ vaultHeartbeat' = [vaultHeartbeat EXCEPT ![vaultId] = blockNumber]
             /\ vaultDeposited' = [vaultDeposited EXCEPT ![vaultId] = 0]
             /\ vaultDepositedMax' = [vaultDepositedMax EXCEPT ![vaultId] = 0]
             /\ vaultTier1Amt' = [vaultTier1Amt EXCEPT ![vaultId] = 0]
             /\ vaultTier2Amt' = [vaultTier2Amt EXCEPT ![vaultId] = 0]
             /\ ownerVaults' = [ownerVaults EXCEPT ![sender][count] = vaultId]
             /\ ownerVaultCount' =
                    [ownerVaultCount EXCEPT ![sender] = IF count = 0 THEN 1 ELSE count]
             /\ totalVaults' = totalVaults + 1
             /\ last' = Outcome("createVault", sender, vaultId, beneficiary, "ok", vaultId)
             /\ UNCHANGED <<feeAmount, feeRecipient, blockNumber, depositCalls>>

\* Variant: the heartbeat of the new vault is left at its default (block 0).
CreateVault_NoHeartbeat(sender, beneficiary) ==
    LET err == CreateVaultError(sender, beneficiary)
        vaultId == nextVaultId
        count == ownerVaultCount[sender]
    IN  IF err # "ok"
        THEN Rejected("createVault", sender, 0, beneficiary, err)
        ELSE /\ nextVaultId' = vaultId + 1
             /\ vaultOwner' = [vaultOwner EXCEPT ![vaultId] = addressToU256(sender)]
             /\ vaultBeneficiary' =
                    [vaultBeneficiary EXCEPT ![vaultId] = addressToU256(beneficiary)]
             /\ vaultStatus' = [vaultStatus EXCEPT ![vaultId] = STATUS_ACTIVE]
             /\ vaultDeposited' = [vaultDeposited EXCEPT ![vaultId] = 0]
             /\ vaultDepositedMax' = [vaultDepositedMax EXCEPT ![vaultId] = 0]
             /\ vaultTier1Amt' = [vaultTier1Amt EXCEPT ![vaultId] = 0]
             /\ vaultTier2Amt' = [vaultTier2Amt EXCEPT ![vaultId] = 0]
             /\ ownerVaults' = [ownerVaults EXCEPT ![sender][count] = vaultId]
             /\ ownerVaultCount' = [ownerVaultCount EXCEPT ![sender] = count + 1]
             /\ totalVaults' = totalVaults + 1
             /\ last' = Outcome("createVault", sender, vaultId, beneficiary, "ok", vaultId)
             /\ UNCHANGED <<vaultHeartbeat, feeAmount, feeRecipient, blockNumber,
                            depositCalls>>

\* Variant: the id is allocated before the beneficiary is validated and the
\* allocation survives the rejection.
CreateVault_AllocatesFirst(sender, beneficiary) ==
    LET err == CreateVaultError(sender, beneficiary)
        vaultId == nextVaultId
        count == ownerVaultCount[sender]
    IN  IF err # "ok"
        THEN /\ nextVaultId' = vaultId + 1
             /\ last' = Outcome("createVault", sender, 0, beneficiary, err, 0)
             /\ UNCHANGED <<vaultOwner, vaultBeneficiary, vaultStatus, vaultHeartbeat,
                            vaultDeposited, vaultDepositedMax, vaultTier1Amt,
                            vaultTier2Amt, ownerVaults,
                            ownerVaultCount, feeAmount, feeRecipient, totalVaults,
                            blockNumber, depositCalls>>
        ELSE /\ nextVaultId' = vaultId + 1
             /\ vaultOwner' = [vaultOwner EXCEPT ![vaultId] = addressToU256(sender)]
             /\ vaultBeneficiary' =
                    [vaultBeneficiary EXCEPT ![vaultId] = addressToU256(beneficiary)]
             /\ vaultStatus' = [vaultStatus EXCEPT ![vaultId] = STATUS_ACTIVE]
             /\ vaultHeartbeat' = [vaultHeartbeat EXCEPT ![vaultId] = blockNumber]
             /\ vaultDeposited' = [vaultDeposited EXCEPT ![vaultId] = 0]
             /\ vaultDepositedMax' = [vaultDepositedMax EXCEPT ![vaultId] = 0]
             /\ vaultTier1Amt' = [vaultTier1Amt EXCEPT ![vaultId] = 0]
             /\ vaultTier2Amt' = [vaultTier2Amt EXCEPT ![vaultId] = 0]
             /\ ownerVaults' = [ownerVaults EXCEPT ![sender][count] = vaultId]
             /\ ownerVaultCount' = [ownerVaultCount EXCEPT ![sender] = count + 1]
             /\ totalVaults' = totalVaults + 1
             /\ last' = Outcome("createVault", sender, vaultId, beneficiary, "ok", vaultId)
             /\ UNCHANGED <<feeAmount, feeRecipient, blockNumber, depositCalls>>

\* Variant: the global vault counter is not advanced.
CreateVault_NoTotal(sender, beneficiary) ==
    LET err == CreateVaultError(sender, beneficiary)
        vaultId == nextVaultId
        count == ownerVaultCount[sender]
    IN  IF err # "ok"
        THEN Rejected("createVault", sender, 0, beneficiary, err)
        ELSE /\ nextVaultId' = vaultId + 1
             /\ vaultOwner' = [vaultOwner EXCEPT ![vaultId] = addressToU256(sender)]
             /\ vaultBeneficiary' =
                    [vaultBeneficiary EXCEPT ![vaultId] = addressToU256(beneficiary)]
             /\ vaultStatus' = [vaultStatus EXCEPT ![vaultId] = STATUS_ACTIVE]
             /\ vaultHeartbeat' = [vaultHeartbeat EXCEPT ![vaultId] = blockNumber]
             /\ vaultDeposited' = [vaultDeposited EXCEPT ![vaultId] = 0]
             /\ vaultDepositedMax' = [vaultDepositedMax EXCEPT ![vaultId] = 0]
             /\ vaultTier1Amt' = [vaultTier1Amt EXCEPT ![vaultId] = 0]
             /\ vaultTier2Amt' = [vaultTier2Amt EXCEPT ![vaultId] = 0]
             /\ ownerVaults' = [ownerVaults EXCEPT ![sender][count] = vaultId]
             /\ ownerVaultCount' = [ownerVaultCount EXCEPT ![sender] = count + 1]
             /\ last' = Outcome("createVault", sender, vaultId, beneficiary, "ok", vaultId)
             /\ UNCHANGED <<totalVaults, feeAmount, feeRecipient, blockNumber,
                            depositCalls>>

CreateVault(sender, beneficiary) ==
    LET err == CreateVaultError(sender, beneficiary)
        vaultId == nextVaultId
        count == ownerVaultCount[sender]
    IN  IF err # "ok"
        THEN Rejected("createVault", sender, 0, beneficiary, err)
        ELSE /\ nextVaultId' = vaultId + 1
             /\ vaultOwner' = [vaultOwner EXCEPT ![vaultId] = addressToU256(sender)]
             /\ vaultBeneficiary' =
                    [vaultBeneficiary EXCEPT ![vaultId] = addressToU256(beneficiary)]
             /\ vaultStatus' = [vaultStatus EXCEPT ![vaultId] = STATUS_ACTIVE]
             /\ vaultHeartbeat' = [vaultHeartbeat EXCEPT ![vaultId] = blockNumber]
             /\ vaultDeposited' = [vaultDeposited EXCEPT ![vaultId] = 0]
             /\ vaultDepositedMax' = [vaultDepositedMax EXCEPT ![vaultId] = 0]
             /\ vaultTier1Amt' = [vaultTier1Amt EXCEPT ![vaultId] = 0]
             /\ vaultTier2Amt' = [vaultTier2Amt EXCEPT ![vaultId] = 0]
             /\ ownerVaults' = [ownerVaults EXCEPT ![sender][count] = vaultId]
             /\ ownerVaultCount' = [ownerVaultCount EXCEPT ![sender] = count + 1]
             /\ totalVaults' = totalVaults + 1
             /\ last' = Outcome("createVault", sender, vaultId, beneficiary, "ok", vaultId)
             /\ UNCHANGED <<feeAmount, feeRecipient, blockNumber, depositCalls>>

\* ---- checkIn ----------------------------------------------------------------
\* Variant: the owner may check in whatever the vault's status.
CheckInError_NoStatus(sender, vaultId) ==
    IF ~requireVaultOwner(vaultId, sender) THEN "NotOwner"
    ELSE "ok"

\* Variant: the status is checked before the ownership.
CheckInError_StatusFirst(sender, vaultId) ==
    IF ~requireVaultStatus(vaultId, STATUS_ACTIVE) THEN "InvalidState"
    ELSE IF ~requireVaultOwner(vaultId, sender) THEN "NotOwner"
    ELSE "ok"

\* Variant: a check-in is refused once the first threshold has passed.
CheckInError_TimeGuard(sender, vaultId) ==
    IF ~requireVaultOwner(vaultId, sender) THEN "NotOwner"
    ELSE IF ~requireVaultStatus(vaultId, STATUS_ACTIVE) THEN "InvalidState"
    ELSE IF elapsedSince(vaultHeartbeat[vaultId], blockNumber) >= TIER_1_BLOCKS
         THEN "TimeoutReached"
    ELSE "ok"

CheckInError(sender, vaultId) ==
    IF ~requireVaultOwner(vaultId, sender) THEN "NotOwner"
    ELSE IF ~requireVaultStatus(vaultId, STATUS_ACTIVE) THEN "InvalidState"
    ELSE "ok"

\* Variant: a check-in succeeds without recording the current block.
CheckIn_KeepsHeartbeat(sender, vaultId) ==
    LET err == CheckInError(sender, vaultId)
    IN  IF err # "ok"
        THEN Rejected("checkIn", sender, vaultId, 0, err)
        ELSE /\ last' = Outcome("checkIn", sender, vaultId, 0, "ok", 1)
             /\ UNCHANGED <<ledger, blockNumber, depositCalls>>

\* Variant: one heartbeat per owner, so a check-in refreshes all its vaults.
CheckIn_AllOfOwner(sender, vaultId) ==
    LET err == CheckInError(sender, vaultId)
    IN  IF err # "ok"
        THEN Rejected("checkIn", sender, vaultId, 0, err)
        ELSE /\ vaultHeartbeat' =
                    [v \in DOMAIN vaultHeartbeat |->
                        IF vaultOwner[v] = addressToU256(sender)
                        THEN blockNumber ELSE vaultHeartbeat[v]]
             /\ last' = Outcome("checkIn", sender, vaultId, 0, "ok", 1)
             /\ UNCHANGED <<vaultOwner, vaultBeneficiary, vaultStatus, vaultDeposited,
                            vaultDepositedMax,
                            vaultTier1Amt, vaultTier2Amt, ownerVaults, ownerVaultCount,
                            nextVaultId, feeAmount, feeRecipient, totalVaults,
                            blockNumber, depositCalls>>

\* Variant: expiry is applied lazily, a check-in that comes after the first
\* threshold releases tier 1 instead of restarting the clock.
CheckIn_LateReleases(sender, vaultId) ==
    LET err == CheckInError(sender, vaultId)
        late == elapsedSince(vaultHeartbeat[vaultId], blockNumber) >= TIER_1_BLOCKS
    IN  IF err # "ok"
        THEN Rejected("checkIn", sender, vaultId, 0, err)
        ELSE /\ vaultHeartbeat' =
                    IF late THEN vaultHeartbeat
                    ELSE [vaultHeartbeat EXCEPT ![vaultId] = blockNumber]
             /\ vaultStatus' =
                    IF late THEN [vaultStatus EXCEPT ![vaultId] = STATUS_TIER1_RELEASED]
                    ELSE vaultStatus
             /\ last' = Outcome("checkIn", sender, vaultId, 0, "ok", 1)
             /\ UNCHANGED <<vaultOwner, vaultBeneficiary, vaultDeposited,
                            vaultDepositedMax,
                            vaultTier1Amt, vaultTier2Amt, ownerVaults, ownerVaultCount,
                            nextVaultId, feeAmount, feeRecipient, totalVaults,
                            blockNumber, depositCalls>>

CheckIn(sender, vaultId) ==
    LET err == CheckInError(sender, vaultId)
    IN  IF err # "ok"
        THEN Rejected("checkIn", sender, vaultId, 0, err)
        ELSE /\ vaultHeartbeat' = [vaultHeartbeat EXCEPT ![vaultId] = blockNumber]
             /\ last' = Outcome("checkIn", sender, vaultId, 0, "ok", 1)
             /\ UNCHANGED <<vaultOwner, vaultBeneficiary, vaultStatus, vaultDeposited,
                            vaultDepositedMax,
                            vaultTier1Amt, vaultTier2Amt, ownerVaults, ownerVaultCount,
                            nextVaultId, feeAmount, feeRecipient, totalVaults,
                            blockNumber, depositCalls>>

\* ---- deposit ----------------------------------------------------------------
\* vaultDeposited.get(vaultId): the cumulative deposit as a u256.
deposited(vaultId) ==
    [max |-> vaultDepositedMax[vaultId], n |-> vaultDeposited[vaultId]]

\* Variant: the owner may still deposit after the first release.
DepositError_WhileReleased(sender, vaultId, amount) ==
    IF ~requireVaultOwner(vaultId, sender) THEN "NotOwner"
    ELSE IF vaultStatus[vaultId] \notin {STATUS_ACTIVE, STATUS_TIER1_RELEASED}
         THEN "InvalidState"
    ELSE IF amount = u256(0) THEN "InvalidAmount"
    ELSE IF AddOverflows(deposited(vaultId), amount)
         THEN "ArithmeticOverflow"
    ELSE IF MulOverflows(U256Add(deposited(vaultId), amount), TIER_1_BPS)
         THEN "ArithmeticOverflow"
    ELSE "ok"

DepositError(sender, vaultId, amount) ==
    IF ~requireVaultOwner(vaultId, sender) THEN "NotOwner"
    ELSE IF ~requireVaultStatus(vaultId, STATUS_ACTIVE) THEN "InvalidState"
    ELSE IF amount = u256(0) THEN "InvalidAmount"
    ELSE IF AddOverflows(deposited(vaultId), amount)
         THEN "ArithmeticOverflow"
    ELSE IF MulOverflows(U256Add(deposited(vaultId), amount), TIER_1_BPS)
         THEN "ArithmeticOverflow"
    ELSE "ok"

\* Variant: the split is left for trigger time instead of being stored now.
recalcTiers_Lazy(vaultId, newTotal) ==
    UNCHANGED <<vaultTier1Amt, vaultTier2Amt>>

\* recalcTiers: the two entitlement maps after storing the split of newTotal.
recalcTiers(vaultId, newTotal) ==
    /\ vaultTier1Amt' = [vaultTier1Amt EXCEPT ![vaultId] = Tier1Of(newTotal)]
    /\ vaultTier2Amt' = [vaultTier2Amt EXCEPT ![vaultId] = Tier2Of(newTotal)]

\* Variant: a deposit counts as a sign of life and restarts the clock.
Deposit_TouchesHeartbeat(sender, vaultId, amount) ==
    LET err == DepositError(sender, vaultId, amount)
        newTotal == vaultDeposited[vaultId] + amount.n
    IN  IF err # "ok"
        THEN Rejected("deposit", sender, vaultId, amount, err)
        ELSE /\ depositCalls < MaxDeposits
             /\ depositCalls' = depositCalls + 1
             /\ vaultDeposited' = [vaultDeposited EXCEPT ![vaultId] = newTotal]
             /\ UNCHANGED vaultDepositedMax
             /\ recalcTiers(vaultId, newTotal)
             /\ vaultHeartbeat' = [vaultHeartbeat EXCEPT ![vaultId] = blockNumber]
             /\ last' = Outcome("deposit", sender, vaultId, amount, "ok", 1)
             /\ UNCHANGED <<vaultOwner, vaultBeneficiary, vaultStatus,
                            ownerVaults, ownerVaultCount, nextVaultId, feeAmount,
                            feeRecipient, totalVaults, blockNumber>>

\* Variant: the amount replaces the recorded total instead of adding to it.
Deposit_Overwrites(sender, vaultId, amount) ==
    LET err == DepositError(sender, vaultId, amount)
    IN  IF err # "ok"
        THEN Rejected("deposit", sender, vaultId, amount, err)
        ELSE /\ depositCalls < MaxDeposits
             /\ depositCalls' = depositCalls + 1
             /\ vaultDeposited' = [vaultDeposited EXCEPT ![vaultId] = amount.n]
             /\ UNCHANGED vaultDepositedMax
             /\ recalcTiers(vaultId, amount.n)
             /\ last' = Outcome("deposit", sender, vaultId, amount, "ok", 1)
             /\ UNCHANGED <<vaultOwner, vaultBeneficiary, vaultStatus, vaultHeartbeat,
                            ownerVaults, ownerVaultCount, nextVaultId, feeAmount,
                            feeRecipient, totalVaults, blockNumber>>

\* Variant: the entitlements are recomputed from the deposited amount instead
\* of the new total.
Deposit_TiersOfAmount(sender, vaultId, amount) ==
    LET err == DepositError(sender, vaultId, amount)
        newTotal == vaultDeposited[vaultId] + amount.n
    IN  IF err # "ok"
        THEN Rejected("deposit", sender, vaultId, amount, err)
        ELSE /\ depositCalls < MaxDeposits
             /\ depositCalls' = depositCalls + 1
             /\ vaultDeposited' = [vaultDeposited EXCEPT ![vaultId] = newTotal]
             /\ UNCHANGED vaultDepositedMax
             /\ recalcTiers(vaultId, amount.n)
             /\ last' = Outcome("deposit", sender, vaultId, amount, "ok", 1)
             /\ UNCHANGED <<vaultOwner, vaultBeneficiary, vaultStatus, vaultHeartbeat,
                            ownerVaults, ownerVaultCount, nextVaultId, feeAmount,
                            feeRecipient, totalVaults, blockNumber>>

\* Variant: each deposit is split on its own and the shares are accumulated,
\* so the entitlements depend on how the total was deposited.
Deposit_SplitsEachAmount(sender, vaultId, amount) ==
    LET err == DepositError(sender, vaultId, amount)
        newTotal == vaultDeposited[vaultId] + amount.n
    IN  IF err # "ok"
        THEN Rejected("deposit", sender, vaultId, amount, err)
        ELSE /\ depositCalls < MaxDeposits
             /\ depositCalls' = depositCalls + 1
             /\ vaultDeposited' = [vaultDeposited EXCEPT ![vaultId] = newTotal]
             /\ UNCHANGED vaultDepositedMax
             /\ vaultTier1Amt' =
                    [vaultTier1Amt EXCEPT ![vaultId] = @ + Tier1Of(amount.n)]
             /\ vaultTier2Amt' =
                    [vaultTier2Amt EXCEPT ![vaultId] = @ + Tier2Of(amount.n)]
             /\ last' = Outcome("deposit", sender, vaultId, amount, "ok", 1)
             /\ UNCHANGED <<vaultOwner, vaultBeneficiary, vaultStatus, vaultHeartbeat,
                            ownerVaults, ownerVaultCount, nextVaultId, feeAmount,
                            feeRecipient, totalVaults, blockNumber>>

\* _deposit.  The checks and SafeMath.add throw before anything is stored;
\* SafeMath.mul in recalcTiers throws after vaultDeposited.set has stored the
\* new total, and that call is undone by the host.
Deposit(sender, vaultId, amount) ==
    LET err == DepositError(sender, vaultId, amount)
        newTotal == U256Add(deposited(vaultId), amount)
    IN  IF /\ err # "ok"
           /\ err # "ArithmeticOverflow" \/ AddOverflows(deposited(vaultId), amount)
        THEN Rejected("deposit", sender, vaultId, amount, err)
        ELSE IF err # "ok"
        THEN /\ last' = Outcome("deposit", sender, vaultId, amount, err, 0)
             /\ vaultDeposited' =
                    revertOnError(vaultDeposited,
                                  [vaultDeposited EXCEPT ![vaultId] = newTotal.n])
             /\ vaultDepositedMax' =
                    revertOnError(vaultDepositedMax,
                                  [vaultDepositedMax EXCEPT ![vaultId] = newTotal.max])
             /\ UNCHANGED <<vaultOwner, vaultBeneficiary, vaultStatus, vaultHeartbeat,
                            vaultTier1Amt, vaultTier2Amt, ownerVaults, ownerVaultCount,
                            nextVaultId, feeAmount, feeRecipient, totalVaults,
                            blockNumber, depositCalls>>
        ELSE /\ depositCalls < MaxDeposits
             /\ depositCalls' = depositCalls + 1
             /\ vaultDeposited' = [vaultDeposited EXCEPT ![vaultId] = newTotal.n]
             /\ vaultDepositedMax' =
                    [vaultDepositedMax EXCEPT ![vaultId] = newTotal.max]
             /\ recalcTiers(vaultId, newTotal.n)
             /\ last' = Outcome("deposit", sender, vaultId, amount, "ok", 1)
             /\ UNCHANGED <<vaultOwner, vaultBeneficiary, vaultStatus, vaultHeartbeat,
                            ownerVaults, ownerVaultCount, nextVaultId, feeAmount,
                            feeRecipient, totalVaults, blockNumber>>

\* ---- setBeneficiary ---------------------------------------------------------
\* Variant: the new beneficiary is not compared with the owner.
SetBeneficiaryError_NoOwnerCompare(sender, vaultId, newBeneficiary) ==
    IF ~requireVaultOwner(vaultId, sender) THEN "NotOwner"
    ELSE IF ~requireVaultStatus(vaultId, STATUS_ACTIVE) THEN "InvalidState"
    ELSE IF isZero(newBeneficiary) THEN "InvalidBeneficiary"
    ELSE "ok"

SetBeneficiaryError(sender, vaultId, newBeneficiary) ==
    IF ~requireVaultOwner(vaultId, sender) THEN "NotOwner"
    ELSE IF ~requireVaultStatus(vaultId, STATUS_ACTIVE) THEN "InvalidState"
    ELSE IF isZero(newBeneficiary) THEN "InvalidBeneficiary"
    ELSE IF addressToU256(newBeneficiary) = vaultOwner[vaultId] THEN "InvalidBeneficiary"
    ELSE "ok"

\* Variant: the new address is written to the owner map.
SetBeneficiary_WritesOwner(sender, vaultId, newBeneficiary) ==
    LET err == SetBeneficiaryError(sender, vaultId, newBeneficiary)
    IN  IF err # "ok"
        THEN Rejected("setBeneficiary", sender, vaultId, newBeneficiary, err)
        ELSE /\ vaultOwner' =
                    [vaultOwner EXCEPT ![vaultId] = addressToU256(newBeneficiary)]
             /\ last' = Outcome("setBeneficiary", sender, vaultId, newBeneficiary, "ok", 1)
             /\ UNCHANGED <<vaultBeneficiary, vaultStatus, vaultHeartbeat, vaultDeposited,
                            vaultDepositedMax,
                            vaultTier1Amt, vaultTier2Amt, ownerVaults, ownerVaultCount,
                            nextVaultId, feeAmount, feeRecipient, totalVaults,
                            blockNumber, depositCalls>>

SetBeneficiary(sender, vaultId, newBeneficiary) ==
    LET err == SetBeneficiaryError(sender, vaultId, newBeneficiary)
    IN  IF err # "ok"
        THEN Rejected("setBeneficiary", sender, vaultId, newBeneficiary, err)
        ELSE /\ vaultBeneficiary' =
                    [vaultBeneficiary EXCEPT ![vaultId] = addressToU256(newBeneficiary)]
             /\ last' = Outcome("setBeneficiary", sender, vaultId, newBeneficiary, "ok", 1)
             /\ UNCHANGED <<vaultOwner, vaultStatus, vaultHeartbeat, vaultDeposited,
                            vaultDepositedMax,
                            vaultTier1Amt, vaultTier2Amt, ownerVaults, ownerVaultCount,
                            nextVaultId, feeAmount, feeRecipient, totalVaults,
                            blockNumber, depositCalls>>

\* ---- triggerTier1 / triggerTier2 ----------------------------------------------
\* Variant: the elapsed-time check is missing.
TriggerTier1Error_NoTimeout(sender, vaultId) ==
    IF ~requireVaultStatus(vaultId, STATUS_ACTIVE) THEN "InvalidState"
    ELSE "ok"

\* Variant: only the owner may trigger.
TriggerTier1Error_OwnerOnly(sender, vaultId) ==
    IF ~requireVaultOwner(vaultId, sender) THEN "NotOwner"
    ELSE IF ~requireVaultStatus(vaultId, STATUS_ACTIVE) THEN "InvalidState"
    ELSE IF elapsedSince(vaultHeartbeat[vaultId], blockNumber) < TIER_1_BLOCKS
         THEN "TimeoutNotReached"
    ELSE "ok"

\* Variant: the threshold block itself is still too early.
TriggerTier1Error_OffByOne(sender, vaultId) ==
    IF ~requireVaultStatus(vaultId, STATUS_ACTIVE) THEN "InvalidState"
    ELSE IF elapsedSince(vaultHeartbeat[vaultId], blockNumber) <= TIER_1_BLOCKS
         THEN "TimeoutNotReached"
    ELSE "ok"

TriggerTier1Error(sender, vaultId) ==
    IF ~requireVaultStatus(vaultId, STATUS_ACTIVE) THEN "InvalidState"
    ELSE IF elapsedSince(vaultHeartbeat[vaultId], blockNumber) < TIER_1_BLOCKS
         THEN "TimeoutNotReached"
    ELSE "ok"

\* What triggerTier1 does for this sender: error kind, released amount and
\* the vault's status after the call.
TriggerTier1Result(sender, vaultId) ==
    LET err == TriggerTier1Error(sender, vaultId)
    IN  IF err # "ok"
        THEN [err |-> err, ret |-> 0, status |-> vaultStatus[vaultId]]
        ELSE [err |-> "ok", ret |-> vaultTier1Amt[vaultId],
              status |-> STATUS_TIER1_RELEASED]

\* Variant: a successful tier-1 release also restarts the clock.
TriggerTier1_ResetsClock(sender, vaultId) ==
    LET res == TriggerTier1Result(sender, vaultId)
    IN  IF res.err # "ok"
        THEN Rejected("triggerTier1", sender, vaultId, 0, res.err)
        ELSE /\ vaultStatus' = [vaultStatus EXCEPT ![vaultId] = res.status]
             /\ vaultHeartbeat' = [vaultHeartbeat EXCEPT ![vaultId] = blockNumber]
             /\ last' = Outcome("triggerTier1", sender, vaultId, 0, "ok", res.ret)
             /\ UNCHANGED <<vaultOwner, vaultBeneficiary, vaultDeposited,
                            vaultDepositedMax,
                            vaultTier1Amt, vaultTier2Amt, ownerVaults, ownerVaultCount,
                            nextVaultId, feeAmount, feeRecipient, totalVaults,
                            blockNumber, depositCalls>>

TriggerTier1(sender, vaultId) ==
    LET res == TriggerTier1Result(sender, vaultId)
    IN  IF res.err # "ok"
        THEN Rejected("triggerTier1", sender, vaultId, 0, res.err)
        ELSE /\ vaultStatus' = [vaultStatus EXCEPT ![vaultId] = res.status]
             /\ last' = Outcome("triggerTier1", sender, vaultId, 0, "ok", res.ret)
             /\ UNCHANGED <<vaultOwner, vaultBeneficiary, vaultHeartbeat, vaultDeposited,
                            vaultDepositedMax,
                            vaultTier1Amt, vaultTier2Amt, ownerVaults, ownerVaultCount,
                            nextVaultId, feeAmount, feeRecipient, totalVaults,
                            blockNumber, depositCalls>>

\* Variant: the status check is missing, only the elapsed time is tested.
TriggerTier2Error_AnyStatus(sender, vaultId) ==
    IF elapsedSince(vaultHeartbeat[vaultId], blockNumber) < TIER_2_BLOCKS
         THEN "TimeoutNotReached"
    ELSE "ok"

\* Variant: an Active vault is accepted as well as a Tier1Released one.
TriggerTier2Error_FromActive(sender, vaultId) ==
    IF vaultStatus[vaultId] \notin {STATUS_ACTIVE, STATUS_TIER1_RELEASED}
         THEN "InvalidState"
    ELSE IF elapsedSince(vaultHeartbeat[vaultId], blockNumber) < TIER_2_BLOCKS
         THEN "TimeoutNotReached"
    ELSE "ok"

TriggerTier2Error(sender, vaultId) ==
    IF ~requireVaultStatus(vaultId, STATUS_TIER1_RELEASED) THEN "InvalidState"
    ELSE IF elapsedSince(vaultHeartbeat[vaultId], blockNumber) < TIER_2_BLOCKS
         THEN "TimeoutNotReached"
    ELSE "ok"

TriggerTier2Result(sender, vaultId) ==
    LET err == TriggerTier2Error(sender, vaultId)
    IN  IF err # "ok"
        THEN [err |-> err, ret |-> 0, status |-> vaultStatus[vaultId]]
        ELSE [err |-> "ok", ret |-> vaultTier2Amt[vaultId],
              status |-> STATUS_FINALIZED]

TriggerTier2(sender, vaultId) ==
    LET res == TriggerTier2Result(sender, vaultId)
    IN  IF res.err # "ok"
        THEN Rejected("triggerTier2", sender, vaultId, 0, res.err)
        ELSE /\ vaultStatus' = [vaultStatus EXCEPT ![vaultId] = res.status]
             /\ last' = Outcome("triggerTier2", sender, vaultId, 0, "ok", res.ret)
             /\ UNCHANGED <<vaultOwner, vaultBeneficiary, vaultHeartbeat, vaultDeposited,
                            vaultDepositedMax,
                            vaultTier1Amt, vaultTier2Amt, ownerVaults, ownerVaultCount,
                            nextVaultId, feeAmount, feeRecipient, totalVaults,
                            blockNumber, depositCalls>>

\* ---- Host ---------------------------------------------------------------------
\* The host moves on to a later block; no storage changes.  `last` then
\* records that no call has been made in the new block yet.
AdvanceBlock ==
    /\ \E b \in BlockHeights :
          /\ b > blockNumber
          /\ blockNumber' = b
          /\ last' = Outcome("advanceBlock", ZeroAddress, 0, b, "ok", 0)
    /\ UNCHANGED <<ledger, depositCalls>>
    /\ UNCHANGED frontend

DoCreateVault ==
    /\ nextVaultId \in CreatableIds
    /\ \E s \in Callers, b \in Addresses : CreateVault(s, b)
    /\ UNCHANGED frontend
DoCheckIn ==
    /\ \E s \in Callers, v \in VaultIds : CheckIn(s, v)
    /\ UNCHANGED frontend
DoDeposit ==
    /\ \E s \in Callers, v \in VaultIds, a \in DepositAmounts : Deposit(s, v, a)
    /\ UNCHANGED frontend
DoSetBeneficiary ==
    /\ \E s \in Callers, v \in VaultIds, b \in Addresses : SetBeneficiary(s, v, b)
    /\ UNCHANGED frontend
DoTriggerTier1 ==
    /\ \E s \in Callers, v \in VaultIds : TriggerTier1(s, v)
    /\ UNCHANGED frontend
DoTriggerTier2 ==
    /\ \E s \in Callers, v \in VaultIds : TriggerTier2(s, v)
    /\ UNCHANGED frontend

Next ==
    \/ DoCreateVault
    \/ DoCheckIn
    \/ DoDeposit
    \/ DoSetBeneficiary
    \/ DoTriggerTier1
    \/ DoTriggerTier2
    \/ AdvanceBlock

Spec == Init /\ [][Next]_vars

\* ---- Views ------------------------------------------------------------------
\* _hasVault: the id has been created.
HasVault(vaultId) == vaultStatus[vaultId] # STATUS_UNINITIALIZED

\* _getVaultCount: the number of vaults the owner has created.
GetVaultCount(owner) == ownerVaultCount[owner]

\* Variant: the bound check accepts index = count (only index > count fails).
GetVaultIdByIndex_OffByOne(owner, index) ==
    IF index > ownerVaultCount[owner]
    THEN [err |-> "IndexOutOfBounds", ret |-> 0]
    ELSE [err |-> "ok", ret |-> ownerVaults[owner][index]]

\* _getVaultIdByIndex: the owner's index-th vault id, or IndexOutOfBounds.
GetVaultIdByIndex(owner, index) ==
    IF index >= ownerVaultCount[owner]
    THEN [err |-> "IndexOutOfBounds", ret |-> 0]
    ELSE [err |-> "ok", ret |-> ownerVaults[owner][index]]

\* Variant: the countdown is taken from the raw difference, so it keeps
\* running below zero past the threshold.
GetStatus_NoFloor(vaultId) ==
    LET lastBeat == vaultHeartbeat[vaultId]
        currentBlock == blockNumber
        elapsed == IF currentBlock >= lastBeat THEN currentBlock - lastBeat ELSE 0
    IN  [currentStatus |-> vaultStatus[vaultId],
         lastHeartbeatBlock |-> lastBeat,
         currentBlock |-> currentBlock,
         totalDeposited |-> vaultDeposited[vaultId],
         tier1Amount |-> vaultTier1Amt[vaultId],
         tier2Amount |-> vaultTier2Amt[vaultId],
         tier1BlocksRemaining |-> TIER_1_BLOCKS - elapsed,
         tier2BlocksRemaining |-> TIER_2_BLOCKS - elapsed,
         owner |-> vaultOwner[vaultId]]

\* _getStatus: the status bundle of a vault id at the current block.
GetStatus(vaultId) ==
    LET lastBeat == vaultHeartbeat[vaultId]
        currentBlock == blockNumber
        elapsed == IF currentBlock >= lastBeat THEN currentBlock - lastBeat ELSE 0
    IN  [currentStatus |-> vaultStatus[vaultId],
         lastHeartbeatBlock |-> lastBeat,
         currentBlock |-> currentBlock,
         totalDeposited |-> vaultDeposited[vaultId],
         tier1Amount |-> vaultTier1Amt[vaultId],
         tier2Amount |-> vaultTier2Amt[vaultId],
         tier1BlocksRemaining |->
             IF elapsed < TIER_1_BLOCKS THEN TIER_1_BLOCKS - elapsed ELSE 0,
         tier2BlocksRemaining |->
             IF elapsed < TIER_2_BLOCKS THEN TIER_2_BLOCKS - elapsed ELSE 0,
         owner |-> vaultOwner[vaultId]]

\* Variant: the view insists on an existing vault, like the entry points do.
GetStatusCall_RequiresVault(sender, vaultId) ==
    /\ last' = IF vaultStatus[vaultId] = STATUS_UNINITIALIZED
               THEN Outcome("getStatus", sender, vaultId, 0, "InvalidState", GetStatus(vaultId))
               ELSE Outcome("getStatus", sender, vaultId, 0, "ok", GetStatus(vaultId))
    /\ UNCHANGED <<ledger, blockNumber, depositCalls>>

\* A view call: the result is returned to the caller, storage is not written.
GetStatusCall(sender, vaultId) ==
    /\ last' = Outcome("getStatus", sender, vaultId, 0, "ok", GetStatus(vaultId))
    /\ UNCHANGED <<ledger, blockNumber, depositCalls>>

GetVaultCountCall(sender, owner) ==
    /\ last' = Outcome("getVaultCount", sender, 0, owner, "ok", GetVaultCount(owner))
    /\ UNCHANGED <<ledger, blockNumber, depositCalls>>

GetVaultIdByIndexCall(sender, owner, index) ==
    LET res == GetVaultIdByIndex(owner, index)
    IN  /\ last' = Outcome("getVaultIdByIndex", sender, 0, <<owner, index>>,
                           res.err, res.ret)
        /\ UNCHANGED <<ledger, blockNumber, depositCalls>>

\* useSentinel.refreshStatus: the status the hook keeps for a _getStatus
\* result, <<>> standing for null (no vault) and <<props>> for a status.
refreshStatusResult(props) ==
    IF props.currentStatus = 0 THEN <<>> ELSE <<props>>

\* Variant: the second tier shows as ready although the first was never released.
getTier2State_FromActive(status) ==
    IF status.currentStatus = 3 THEN "done"
    ELSE IF status.tier2BlocksRemaining = 0 /\ status.currentStatus \in {1, 2} THEN "ready"
    ELSE "pending"

\* TierStepper.getTier1State: what the stepper shows for tier 1.
getTier1State(status) ==
    IF status.currentStatus >= 2 THEN "done"
    ELSE IF status.tier1BlocksRemaining = 0 /\ status.currentStatus = 1 THEN "ready"
    ELSE "pending"

\* TierStepper.getTier2State: what the stepper shows for tier 2.
getTier2State(status) ==
    IF status.currentStatus = 3 THEN "done"
    ELSE IF status.tier2BlocksRemaining = 0 /\ status.currentStatus = 2 THEN "ready"
    ELSE "pending"

\* ---- Views specification -----------------------------------------------------
\* The entry points of Spec together with the view calls, with coarser
\* deposit amounts.
ViewDepositAmounts == {u256(0), u256(9), u256(1000000)}
ViewIndexes == {0, 1}

DepositViews ==
    /\ \E s \in Callers, v \in VaultIds, a \in ViewDepositAmounts : Deposit(s, v, a)
    /\ UNCHANGED frontend
GetStatusViews ==
    /\ \E s \in Callers, v \in VaultIds : GetStatusCall(s, v)
    /\ UNCHANGED frontend
GetVaultCountViews ==
    /\ \E s \in Callers, o \in Callers : GetVaultCountCall(s, o)
    /\ UNCHANGED frontend
GetVaultIdByIndexViews ==
    /\ \E s \in Callers, o \in Callers, i \in ViewIndexes : GetVaultIdByIndexCall(s, o, i)
    /\ UNCHANGED frontend

NextViews ==
    \/ DoCreateVault
    \/ DoCheckIn
    \/ DepositViews
    \/ DoSetBeneficiary
    \/ DoTriggerTier1
    \/ DoTriggerTier2
    \/ AdvanceBlock
    \/ GetStatusViews
    \/ GetVaultCountViews
    \/ GetVaultIdByIndexViews

SpecViews == Init /\ [][NextViews]_vars

\* ---- Deposits specification --------------------------------------------------
\* One vault and every deposit amount of a dense range, so that the recorded
\* total takes every value of a range around the rounding steps of the split.
SplitAmounts == {u256(n) : n \in 0..12}

DepositSplit ==
    /\ \E s \in Callers, v \in VaultIds, a \in SplitAmounts : Deposit(s, v, a)
    /\ UNCHANGED frontend

NextSplit ==
    \/ DoCreateVault
    \/ DepositSplit

SpecSplit == Init /\ [][NextSplit]_vars

\* ---- Host clock specification -------------------------------------------------
\* The host may report any block height, also one below an earlier height.
ClockBlockHeights == {0, 100, 500, TIER_1_BLOCKS + 500, TIER_2_BLOCKS + 500}

HostBlock ==
    /\ \E b \in ClockBlockHeights :
          /\ b # blockNumber
          /\ blockNumber' = b
          /\ last' = Outcome("advanceBlock", ZeroAddress, 0, b, "ok", 0)
    /\ UNCHANGED <<ledger, depositCalls>>
    /\ UNCHANGED frontend

NextClock ==
    \/ DoCreateVault
    \/ DoCheckIn
    \/ DoTriggerTier1
    \/ DoTriggerTier2
    \/ GetStatusViews
    \/ HostBlock

SpecClock == Init /\ [][NextClock]_vars

\* ---- Liveness specification ---------------------------------------------------
\* The chain keeps producing blocks and trigger calls keep being made on every
\* vault id; the owners create vaults and check in only up to block
\* OwnerQuietAfter and are silent from then on.
LiveBlockHeights ==
    {0, TIER_1_BLOCKS, TIER_2_BLOCKS, TIER_1_BLOCKS + TIER_2_BLOCKS}
OwnerQuietAfter == TIER_1_BLOCKS
LiveDepositAmounts == {u256(9)}

AdvanceBlockLive ==
    /\ \E b \in LiveBlockHeights :
          /\ b > blockNumber
          /\ blockNumber' = b
          /\ last' = Outcome("advanceBlock", ZeroAddress, 0, b, "ok", 0)
    /\ UNCHANGED <<ledger, depositCalls>>
    /\ UNCHANGED frontend

CreateVaultLive == blockNumber <= OwnerQuietAfter /\ DoCreateVault
CheckInLive == blockNumber <= OwnerQuietAfter /\ DoCheckIn
DepositLive ==
    /\ \E s \in Callers, v \in VaultIds, a \in LiveDepositAmounts : Deposit(s, v, a)
    /\ UNCHANGED frontend
TriggerTier1Live(v) ==
    /\ \E s \in Callers : TriggerTier1(s, v)
    /\ UNCHANGED frontend
TriggerTier2Live(v) ==
    /\ \E s \in Callers : TriggerTier2(s, v)
    /\ UNCHANGED frontend

NextLive ==
    \/ CreateVaultLive
    \/ CheckInLive
    \/ DepositLive
    \/ \E v \in VaultIds : TriggerTier1Live(v)
    \/ \E v \in VaultIds : TriggerTier2Live(v)
    \/ AdvanceBlockLive

SpecLive ==
    /\ Init
    /\ [][NextLive]_vars
    /\ WF_vars(AdvanceBlockLive)
    /\ \A v \in VaultIds : WF_vars(TriggerTier1Live(v))
    /\ \A v \in VaultIds : WF_vars(TriggerTier2Live(v))

\* ---- Several vaults ---------------------------------------------------------
\* A second specification over the same entry points, in which several
\* vaults are created, with coarser inputs than Spec.
MultiVaultIds == {1, 2}
MultiCreatableIds == {1, 2}
MultiDepositAmounts == {u256(0), u256(9)}
MultiBlockHeights == {0, TIER_1_BLOCKS, TIER_2_BLOCKS}

InitMulti ==
    /\ vaultOwner = [v \in MultiVaultIds |-> 0]
    /\ vaultBeneficiary = [v \in MultiVaultIds |-> 0]
    /\ vaultStatus = [v \in MultiVaultIds |-> STATUS_UNINITIALIZED]
    /\ vaultHeartbeat = [v \in MultiVaultIds |-> 0]
    /\ vaultDeposited = [v \in MultiVaultIds |-> 0]
    /\ vaultDepositedMax = [v \in MultiVaultIds |-> 0]
    /\ vaultTier1Amt = [v \in MultiVaultIds |-> 0]
    /\ vaultTier2Amt = [v \in MultiVaultIds |-> 0]
    /\ ownerVaults =
          [o \in Callers |-> [i \in 0..(Cardinality(MultiVaultIds) - 1) |-> 0]]
    /\ ownerVaultCount = [o \in Callers |-> 0]
    /\ nextVaultId = 1
    /\ feeAmount = DEFAULT_FEE
    /\ feeRecipient = Deployer
    /\ totalVaults = 0
    /\ blockNumber = 0
    /\ last = Outcome("onDeployment", Deployer, 0, 0, "ok", 0)
    /\ depositCalls = 0
    /\ InitFrontend

AdvanceBlockMulti ==
    /\ \E b \in MultiBlockHeights :
          /\ b > blockNumber
          /\ blockNumber' = b
          /\ last' = Outcome("advanceBlock", ZeroAddress, 0, b, "ok", 0)
    /\ UNCHANGED <<ledger, depositCalls>>
    /\ UNCHANGED frontend

CreateVaultMulti ==
    /\ nextVaultId \in MultiCreatableIds
    /\ \E s \in Callers, b \in Addresses : CreateVault(s, b)
    /\ UNCHANGED frontend
CheckInMulti ==
    /\ \E s \in Callers, v \in MultiVaultIds : CheckIn(s, v)
    /\ UNCHANGED frontend
DepositMulti ==
    /\ \E s \in Callers, v \in MultiVaultIds, a \in MultiDepositAmounts : Deposit(s, v, a)
    /\ UNCHANGED frontend
SetBeneficiaryMulti ==
    /\ \E s \in Callers, v \in MultiVaultIds, b \in Addresses : SetBeneficiary(s, v, b)
    /\ UNCHANGED frontend
TriggerTier1Multi ==
    /\ \E s \in Callers, v \in MultiVaultIds : TriggerTier1(s, v)
    /\ UNCHANGED frontend
TriggerTier2Multi ==
    /\ \E s \in Callers, v \in MultiVaultIds : TriggerTier2(s, v)
    /\ UNCHANGED frontend

NextMulti ==
    \/ CreateVaultMulti
    \/ CheckInMulti
    \/ DepositMulti
    \/ SetBeneficiaryMulti
    \/ TriggerTier1Multi
    \/ TriggerTier2Multi
    \/ AdvanceBlockMulti

SpecMulti == InitMulti /\ [][NextMulti]_vars

\* ---- Frontend: the useSentinel hook ------------------------------------------
\* The state of the contract and the host, which the frontend only reads.
chain == <<ledger, blockNumber, last, depositCalls>>

\* The state of the useSentinel hook.
hookState ==
    <<hookStatus, loading, error, isOwner, refreshStatusCalls, sendTxCalls,
      createVaultCall>>

\* The useState values of the App component.
appState ==
    <<vaultIds, vaultIdsLoaded, selectedVaultId, vaultTxSubmitted, pendingVaultId,
      creatingVault, showCreateForm, checkInSubmitting, checkInSubmitted,
      depositSubmitting>>

\* The state the effects of App and useSentinel depend on (the status, on
\* which the effect of useSentinel depends as well, is left to PollBegin).
Deps ==
    [vaultId |-> selectedVaultId, connected |-> connected,
     vaultTxSubmitted |-> vaultTxSubmitted, pendingVaultId |-> pendingVaultId]

\* The effects: what they last ran with, and whether the confirmation poll
\* they started has cleared its interval.  An effect runs again, after the
\* render, when one of its dependencies has changed: in the same step when a
\* click has changed it, in a later step when the continuation of a request or
\* the wallet has changed it.
effects == <<effectDeps, pollCleared>>

\* No effect is waiting to run.  A click and a wallet event are handled when
\* the effects of the last render have run; the continuation of a request
\* runs whether they have or not, and the effects then run for all that has
\* changed.
EffectsDone == effectDeps = Deps

\* The dependencies of App's effect that polls for the confirmation.
pollDeps(deps) == <<deps.vaultTxSubmitted, deps.connected, deps.pendingVaultId>>

\* The page App renders for its state (contract deployed).
page ==
    IF ~connected THEN "Connect Wallet"
    ELSE IF selectedVaultId = 0
    THEN IF vaultTxSubmitted THEN "Transaction Submitted"
         ELSE IF vaultIdsLoaded /\ vaultIds = <<>> /\ ~showCreateForm
              THEN "Create Your Vault"
         ELSE IF showCreateForm THEN "Create Your Vault (from the list)"
         ELSE "VaultListPage"
    ELSE IF hookStatus = <<>>
         THEN IF loading THEN "Loading Vault" ELSE "No Vault Found"
         ELSE "Vault detail"

\* VaultListPage: the vault cards on the screen, one for each listed id.
shownCards ==
    IF page = "VaultListPage" THEN {vaultIds[i] : i \in DOMAIN vaultIds} ELSE {}

\* VaultCard: a card that comes onto the screen asks for the status of its
\* vault and is loading until the answer; a card that leaves the screen is
\* gone with its state.
VaultCards ==
    cardLoading' = (cardLoading \cap shownCards') \cup (shownCards' \ shownCards)

\* VaultCard on the answer of fetchVaultStatus, which reports a failure in
\* its result and never rejects: the card is no longer loading.
cardLoaded(id) ==
    /\ id \in cardLoading
    /\ cardLoading' = cardLoading \ {id}
    /\ UNCHANGED <<chain, hookState, appState, fetchCalls, createVaultTx,
                   connected, effects>>

\* Array.prototype.includes on a list of vault ids.
includes(ids, id) == \E i \in DOMAIN ids : ids[i] = id

\* A sequence without its i-th element.
RemoveAt(s, i) == SubSeq(s, 1, i - 1) \o SubSeq(s, i + 1, Len(s))

\* The ways an awaited request can reject: with an Error, whose message is
\* reported, or with another value, for which each handler has its own text.
Rejections == {"Error", "not an Error"}
RejectionMessage == "RPC down"
Answers == {"ok"} \cup Rejections
ResolveAnswers == {"found", "null"} \cup Rejections

\* err instanceof Error ? err.message : text
messageOf(rejection, text) ==
    IF rejection = "Error" THEN RejectionMessage ELSE text

\* useSentinel.refreshStatus up to its await of _getStatus.
refreshStatusBegin ==
    /\ loading' = TRUE
    /\ error' = "null"

\* useSentinel.refreshStatus from the answer of _getStatus on: the status is
\* stored (null for status 0), or the rejection of the request is reported;
\* the finally block clears the loading flag.
refreshStatusEnd(props, answer) ==
    /\ IF answer # "ok"
       THEN /\ error' = messageOf(answer, "Failed to fetch status")
            /\ UNCHANGED <<hookStatus, isOwner>>
       ELSE /\ hookStatus' = refreshStatusResult(props)
            /\ isOwner' = (props.currentStatus # 0 /\ addressToU256(Wallet) = props.owner)
            /\ UNCHANGED error
    /\ loading' = FALSE

\* The effect of useSentinel calls refreshStatus again: its interval ticks,
\* or the status it depends on has changed.  The refreshStatus is the one of
\* the render the effect last ran for.
PollBegin ==
    /\ effectDeps.connected
    /\ effectDeps.vaultId # 0
    /\ Len(refreshStatusCalls) < MaxPolls
    /\ refreshStatusBegin
    /\ refreshStatusCalls' = Append(refreshStatusCalls, effectDeps.vaultId)
    /\ UNCHANGED <<chain, hookStatus, isOwner, sendTxCalls, createVaultCall,
                   appState, fetchCalls, createVaultTx, connected, effects>>
    /\ VaultCards

\* The answer to a refreshStatus of the effect arrives: the status of the
\* vault the request asked for.
PollEnd ==
    /\ \E i \in DOMAIN refreshStatusCalls, answer \in Answers :
          /\ refreshStatusEnd(GetStatus(refreshStatusCalls[i]), answer)
          /\ refreshStatusCalls' = RemoveAt(refreshStatusCalls, i)
    /\ UNCHANGED <<chain, sendTxCalls, createVaultCall, appState, fetchCalls,
                   createVaultTx, connected, effects>>
    /\ VaultCards

\* The simulation of a write call against the current state of the contract,
\* with the wallet as sender.
simulate(call) ==
    IF call.op = "checkIn" THEN CheckInError(Wallet, call.vaultId)
    ELSE IF call.op = "deposit" THEN DepositError(Wallet, call.vaultId, call.amount)
    ELSE IF call.op = "triggerTier1" THEN TriggerTier1Error(Wallet, call.vaultId)
    ELSE IF call.op = "triggerTier2" THEN TriggerTier2Error(Wallet, call.vaultId)
    ELSE SetBeneficiaryError(Wallet, call.vaultId, call.address)

NoSendTx ==
    [pc |-> "idle", op |-> "none", vaultId |-> 0, amount |-> u256(0),
     address |-> ZeroAddress]

\* The positions of a call inside sendTx.
SendTxPcs == {"simulate", "send", "refresh"}

\* The continuation of App's click handlers when checkIn or deposit returns.
sendTxReturned(op, ok) ==
    /\ checkInSubmitting' = IF op = "checkIn" THEN FALSE ELSE checkInSubmitting
    /\ checkInSubmitted' = IF op = "checkIn" /\ ok THEN TRUE ELSE checkInSubmitted
    /\ depositSubmitting' = IF op = "deposit" THEN FALSE ELSE depositSubmitting
    /\ UNCHANGED <<vaultIds, vaultIdsLoaded, selectedVaultId, vaultTxSubmitted,
                   pendingVaultId, creatingVault, showCreateForm>>

\* useSentinel.sendTx up to its await of the simulation, for the vault the
\* hook is scoped to at the click.
sendTxBegin(i, op, amount) ==
    /\ sendTxCalls[i].pc = "idle"
    /\ loading' = TRUE
    /\ error' = "null"
    /\ sendTxCalls' =
          [sendTxCalls EXCEPT ![i] = [pc |-> "simulate", op |-> op,
                                      vaultId |-> selectedVaultId, amount |-> amount,
                                      address |-> ZeroAddress]]
    /\ UNCHANGED <<chain, hookStatus, isOwner, refreshStatusCalls, createVaultCall,
                   fetchCalls, createVaultTx, connected,
                       effects>>

\* useSentinel.sendTx on the answer of the simulation: a rejected request
\* or a revert is reported and ends the call, otherwise the transaction is
\* handed to the wallet.
sendTxSimulated(i, answer) ==
    LET call == sendTxCalls[i]
    IN  /\ call.pc = "simulate"
        /\ IF answer # "ok"
           THEN /\ error' = messageOf(answer, "Transaction failed")
                /\ loading' = FALSE
                /\ sendTxCalls' = [sendTxCalls EXCEPT ![i] = NoSendTx]
                /\ sendTxReturned(call.op, FALSE)
           ELSE IF simulate(call) # "ok"
           THEN /\ error' = "Transaction would fail"
                /\ loading' = FALSE
                /\ sendTxCalls' = [sendTxCalls EXCEPT ![i] = NoSendTx]
                /\ sendTxReturned(call.op, FALSE)
           ELSE /\ sendTxCalls' = [sendTxCalls EXCEPT ![i].pc = "send"]
                /\ UNCHANGED <<loading, error, appState>>
        /\ UNCHANGED <<chain, hookStatus, isOwner, refreshStatusCalls,
                       createVaultCall, fetchCalls, createVaultTx, connected,
                       effects>>

\* useSentinel.sendTx when sendTransaction returns: on a rejection the call
\* ends, otherwise the follow-up refreshStatus starts.
sendTxSent(i, answer) ==
    LET call == sendTxCalls[i]
    IN  /\ call.pc = "send"
        /\ IF answer # "ok"
           THEN /\ error' = messageOf(answer, "Transaction failed")
                /\ loading' = FALSE
                /\ sendTxCalls' = [sendTxCalls EXCEPT ![i] = NoSendTx]
                /\ sendTxReturned(call.op, FALSE)
           ELSE /\ refreshStatusBegin
                /\ sendTxCalls' = [sendTxCalls EXCEPT ![i].pc = "refresh"]
                /\ UNCHANGED appState
        /\ UNCHANGED <<chain, hookStatus, isOwner, refreshStatusCalls,
                       createVaultCall, fetchCalls, createVaultTx, connected,
                       effects>>

\* useSentinel.sendTx when its refreshStatus has its answer: the refresh
\* finishes, the finally block of sendTx clears the loading flag and sendTx
\* returns true.
sendTxRefreshed(i) ==
    LET call == sendTxCalls[i]
    IN  /\ call.pc = "refresh"
        /\ \E answer \in Answers : refreshStatusEnd(GetStatus(call.vaultId), answer)
        /\ sendTxCalls' = [sendTxCalls EXCEPT ![i] = NoSendTx]
        /\ sendTxReturned(call.op, TRUE)
        /\ UNCHANGED <<chain, refreshStatusCalls, createVaultCall, fetchCalls,
                       createVaultTx, connected,
                       effects>>

\* useSentinel.setBeneficiary up to its await of getPublicKeyInfo, for the
\* vault the hook is scoped to at the call.
setBeneficiaryBegin(i, address) ==
    /\ sendTxCalls[i].pc = "idle"
    /\ sendTxCalls' =
          [sendTxCalls EXCEPT ![i] = [pc |-> "getPublicKeyInfo", op |-> "setBeneficiary",
                                      vaultId |-> selectedVaultId, amount |-> u256(0),
                                      address |-> address]]
    /\ UNCHANGED <<chain, hookStatus, loading, error, isOwner, refreshStatusCalls,
                   createVaultCall, appState, fetchCalls, createVaultTx, connected,
                       effects>>

\* useSentinel.setBeneficiary on the answer of getPublicKeyInfo: an address
\* without a known key or a rejected request is reported and ends the call
\* with false, otherwise sendTx starts with _setBeneficiary.
setBeneficiaryResolved(i, answer) ==
    LET call == sendTxCalls[i]
    IN  /\ call.pc = "getPublicKeyInfo"
        /\ IF answer = "found"
           THEN /\ loading' = TRUE
                /\ error' = "null"
                /\ sendTxCalls' = [sendTxCalls EXCEPT ![i].pc = "simulate"]
           ELSE /\ error' = IF answer = "null"
                            THEN "Could not resolve beneficiary address"
                            ELSE messageOf(answer, "Failed to resolve address")
                /\ sendTxCalls' = [sendTxCalls EXCEPT ![i] = NoSendTx]
                /\ UNCHANGED loading
        /\ UNCHANGED <<chain, hookStatus, isOwner, refreshStatusCalls,
                       createVaultCall, appState, fetchCalls, createVaultTx, connected,
                       effects>>

\* TierStepper: the trigger button of a tier is shown when the tier is ready
\* and is disabled while the hook is loading.
triggerButtonEnabled(op) ==
    /\ page = "Vault detail"
    /\ IF op = "triggerTier1"
       THEN getTier1State(hookStatus[1]) = "ready"
       ELSE getTier2State(hookStatus[1]) = "ready"
    /\ ~loading

\* ---- Frontend: the vault list of the App --------------------------------------
\* A call of vaultFetch.fetchVaultIdsForOwner that awaits the count, with the
\* pending vault id its callback has in its closure (the poll's callback only).
NewFetch(then) ==
    [then |-> then, pc |-> "count", count |-> 0, ids |-> <<>>, pendingVaultId |-> 0]

\* The effect that polls for the confirmation is replaced when
\* vaultTxSubmitted or pendingVaultId changes; its cleanup sets `cancelled`,
\* after which the answers to its requests are ignored.
withoutPolls(calls) == SelectSeq(calls, LAMBDA c : c.then # "poll")

\* The callback the i-th call of fetchVaultIdsForOwner runs on its result.
\* The poll for the confirmation, unless the cleanup of its effect has
\* cancelled it, selects the pending vault of its effect once it is listed,
\* and clears its interval; the effects that depend on what it has set run
\* after the render.
fetchThen(i, ids) ==
    LET call == fetchCalls[i]
        rest == RemoveAt(fetchCalls, i)
    IN  IF call.then = "connect"
        THEN /\ vaultIds' = ids
             /\ vaultIdsLoaded' = TRUE
             /\ fetchCalls' = rest
             /\ UNCHANGED <<selectedVaultId, vaultTxSubmitted, pendingVaultId,
                            pollCleared>>
        ELSE IF call.then = "handleBack"
        THEN /\ vaultIds' = ids
             /\ fetchCalls' = rest
             /\ UNCHANGED <<vaultIdsLoaded, selectedVaultId, vaultTxSubmitted,
                            pendingVaultId, pollCleared>>
        ELSE IF includes(ids, call.pendingVaultId)
        THEN /\ pollCleared' = TRUE
             /\ vaultTxSubmitted' = FALSE
             /\ vaultIds' = ids
             /\ selectedVaultId' = call.pendingVaultId
             /\ pendingVaultId' = 0
             /\ fetchCalls' = rest
             /\ UNCHANGED vaultIdsLoaded
        ELSE /\ fetchCalls' = rest
             /\ UNCHANGED <<vaultIds, vaultIdsLoaded, selectedVaultId,
                            vaultTxSubmitted, pendingVaultId, pollCleared>>

\* fetchVaultIdsForOwner on the answer of _getVaultCount: an owner without
\* vaults gets the empty list at once, otherwise the id at index 0 is asked
\* for.
fetchCounted(i) ==
    LET count == GetVaultCount(Wallet)
    IN  /\ fetchCalls[i].pc = "count"
        /\ IF count = 0
           THEN fetchThen(i, <<>>)
           ELSE /\ fetchCalls' = [fetchCalls EXCEPT ![i].pc = "ids", ![i].count = count]
                /\ UNCHANGED <<vaultIds, vaultIdsLoaded, selectedVaultId,
                               vaultTxSubmitted, pendingVaultId, pollCleared>>
        /\ UNCHANGED <<chain, hookState, creatingVault, showCreateForm,
                       checkInSubmitting, checkInSubmitted, depositSubmitting,
                       createVaultTx, connected, effectDeps>>

\* fetchVaultIdsForOwner on the answer of a _getVaultIdByIndex: the id is
\* added to the list; after the last index the list is returned, otherwise
\* the id at the next index is asked for.
fetchListed(i) ==
    LET call == fetchCalls[i]
        ids == Append(call.ids, GetVaultIdByIndex(Wallet, Len(call.ids)).ret)
    IN  /\ call.pc = "ids"
        /\ IF Len(ids) = call.count
           THEN fetchThen(i, ids)
           ELSE /\ fetchCalls' = [fetchCalls EXCEPT ![i].ids = ids]
                /\ UNCHANGED <<vaultIds, vaultIdsLoaded, selectedVaultId,
                               vaultTxSubmitted, pendingVaultId, pollCleared>>
        /\ UNCHANGED <<chain, hookState, creatingVault, showCreateForm,
                       checkInSubmitting, checkInSubmitted, depositSubmitting,
                       createVaultTx, connected, effectDeps>>

\* A request of fetchVaultIdsForOwner rejects: the load on connect shows the
\* empty list, the other callers ignore the failure.
fetchFailed(i) ==
    /\ IF fetchCalls[i].then = "connect"
       THEN /\ vaultIds' = <<>>
            /\ vaultIdsLoaded' = TRUE
       ELSE UNCHANGED <<vaultIds, vaultIdsLoaded>>
    /\ fetchCalls' = RemoveAt(fetchCalls, i)
    /\ UNCHANGED <<chain, hookState, selectedVaultId, vaultTxSubmitted,
                   pendingVaultId, creatingVault, showCreateForm,
                   checkInSubmitting, checkInSubmitted, depositSubmitting,
                   createVaultTx, connected, effects>>

\* The number of calls of fetchVaultIdsForOwner in flight for a callback.
InFlight(then) == Len(SelectSeq(fetchCalls, LAMBDA c : c.then = then))

\* The effects that run in the step of a click that has set the state: the
\* confirmation poll, when its dependencies have changed, is cleaned up (the
\* answers to its requests are ignored from then on) and starts again if a
\* transaction is submitted.
clickEffects ==
    /\ effectDeps' = Deps'
    /\ pollCleared' = (pollCleared /\ pollDeps(Deps') = pollDeps(effectDeps))
    /\ fetchCalls' =
          IF pollDeps(Deps') = pollDeps(effectDeps)
          THEN fetchCalls
          ELSE withoutPolls(fetchCalls)

\* App.handleSelectVault, a click handler: the vault page of `id` is opened;
\* the hook is now scoped to that vault and its effect starts a
\* refreshStatus.
handleSelectVault(id) ==
    /\ selectedVaultId' = id
    /\ showCreateForm' = FALSE
    /\ vaultTxSubmitted' = FALSE
    /\ IF id # selectedVaultId
       THEN /\ refreshStatusBegin
            /\ refreshStatusCalls' = Append(refreshStatusCalls, id)
       ELSE UNCHANGED <<loading, error, refreshStatusCalls>>
    /\ UNCHANGED <<chain, hookStatus, isOwner, sendTxCalls, createVaultCall,
                   vaultIds, vaultIdsLoaded, pendingVaultId, creatingVault,
                   checkInSubmitting, checkInSubmitted, depositSubmitting,
                   createVaultTx, connected>>
    /\ clickEffects

\* App.handleBack, a click handler: back to the list, whose ids are fetched
\* again; the effect of the hook, now without a vault, starts no request.
handleBack ==
    /\ selectedVaultId' = 0
    /\ showCreateForm' = FALSE
    /\ vaultTxSubmitted' = FALSE
    /\ creatingVault' = FALSE
    /\ UNCHANGED <<chain, hookState, vaultIds, vaultIdsLoaded, pendingVaultId,
                   checkInSubmitting, checkInSubmitted, depositSubmitting,
                   createVaultTx, connected>>
    /\ effectDeps' = Deps'
    /\ pollCleared' = (pollCleared /\ pollDeps(Deps') = pollDeps(effectDeps))
    /\ fetchCalls' =
          Append(IF pollDeps(Deps') = pollDeps(effectDeps)
                 THEN fetchCalls
                 ELSE withoutPolls(fetchCalls),
                 NewFetch("handleBack"))

\* ---- Frontend: creating a vault in the App -----------------------------------
NoCreateVault == [pc |-> "idle", beneficiary |-> ZeroAddress, newVaultId |-> 0]

\* App.handleCreateVault up to the await of getPublicKeyInfo in
\* useSentinel.createVault.
handleCreateVault(beneficiary) ==
    /\ creatingVault' = TRUE
    /\ loading' = TRUE
    /\ error' = "null"
    /\ createVaultCall' =
          [pc |-> "getPublicKeyInfo", beneficiary |-> beneficiary, newVaultId |-> 0]
    /\ UNCHANGED <<chain, hookStatus, isOwner, refreshStatusCalls, sendTxCalls,
                   vaultIds, vaultIdsLoaded, selectedVaultId, vaultTxSubmitted,
                   pendingVaultId, showCreateForm, checkInSubmitting,
                   checkInSubmitted, depositSubmitting, fetchCalls, createVaultTx,
                   connected, effects>>

\* useSentinel.createVault ends with null: the failure is reported, the
\* finally block clears the loading flag, and App.handleCreateVault clears
\* creatingVault.
createVaultFailed(message) ==
    /\ error' = message
    /\ loading' = FALSE
    /\ creatingVault' = FALSE
    /\ createVaultCall' = NoCreateVault

\* useSentinel.createVault on the answer of getPublicKeyInfo: an address
\* without a known key or a rejected request is reported and ends the call
\* with null, otherwise the simulation of _createVault is asked for.
createVaultResolved(answer) ==
    /\ createVaultCall.pc = "getPublicKeyInfo"
    /\ IF answer = "found"
       THEN /\ createVaultCall' = [createVaultCall EXCEPT !.pc = "simulate"]
            /\ UNCHANGED <<loading, error, creatingVault>>
       ELSE IF answer = "null"
       THEN createVaultFailed("Could not find the public key for this address")
       ELSE createVaultFailed(messageOf(answer, "Failed to create vault"))
    /\ UNCHANGED <<chain, hookStatus, isOwner, refreshStatusCalls, sendTxCalls,
                   vaultIds, vaultIdsLoaded, selectedVaultId, vaultTxSubmitted,
                   pendingVaultId, showCreateForm, checkInSubmitting,
                   checkInSubmitted, depositSubmitting, fetchCalls, createVaultTx,
                   connected, effects>>

\* useSentinel.createVault on the answer of the simulation, which runs
\* against the current state of the contract: a rejected request or a revert
\* is reported and ends the call with null, otherwise the simulation
\* supplies the id of the new vault and the transaction is handed to the
\* wallet.
createVaultSimulated(answer) ==
    /\ createVaultCall.pc = "simulate"
    /\ IF answer # "ok"
       THEN createVaultFailed(messageOf(answer, "Failed to create vault"))
       ELSE IF CreateVaultError(Wallet, createVaultCall.beneficiary) # "ok"
       THEN createVaultFailed("Transaction would fail")
       ELSE /\ createVaultCall' =
                  [createVaultCall EXCEPT !.pc = "sendTransaction",
                                          !.newVaultId = nextVaultId]
            /\ UNCHANGED <<loading, error, creatingVault>>
    /\ UNCHANGED <<chain, hookStatus, isOwner, refreshStatusCalls, sendTxCalls,
                   vaultIds, vaultIdsLoaded, selectedVaultId, vaultTxSubmitted,
                   pendingVaultId, showCreateForm, checkInSubmitting,
                   checkInSubmitted, depositSubmitting, fetchCalls, createVaultTx,
                   connected, effects>>

\* useSentinel.createVault when sendTransaction returns, and the rest of
\* App.handleCreateVault: createVault returns the simulated id, which becomes
\* the pending vault id of the 'Transaction Submitted' page; a rejection is
\* reported and ends the call with null.  The effect that polls for the
\* confirmation runs after the render.
createVaultSent(answer) ==
    /\ createVaultCall.pc = "sendTransaction"
    /\ IF answer # "ok"
       THEN /\ createVaultFailed(messageOf(answer, "Failed to create vault"))
            /\ UNCHANGED <<pendingVaultId, vaultTxSubmitted, showCreateForm,
                           createVaultTx>>
       ELSE /\ loading' = FALSE
            /\ creatingVault' = FALSE
            /\ createVaultCall' = NoCreateVault
            /\ pendingVaultId' = createVaultCall.newVaultId
            /\ vaultTxSubmitted' = TRUE
            /\ showCreateForm' = FALSE
            /\ createVaultTx' =
                  [pc |-> "sent", beneficiary |-> createVaultCall.beneficiary,
                   vaultId |-> 0]
            /\ UNCHANGED error
    /\ UNCHANGED <<chain, hookStatus, isOwner, refreshStatusCalls, sendTxCalls,
                   vaultIds, vaultIdsLoaded, selectedVaultId, checkInSubmitting,
                   checkInSubmitted, depositSubmitting, fetchCalls, connected,
                   effects>>

\* App's poll for the confirmation of the vault: every tick of the interval
\* its effect has started asks for the owner's vault ids.
pollVaultConfirmation ==
    /\ effectDeps.connected
    /\ effectDeps.vaultTxSubmitted
    /\ effectDeps.pendingVaultId # 0
    /\ ~pollCleared
    /\ fetchCalls' =
          Append(fetchCalls,
                 [NewFetch("poll") EXCEPT !.pendingVaultId = effectDeps.pendingVaultId])
    /\ UNCHANGED <<chain, hookState, appState, createVaultTx, connected, effects>>

\* The effects that run after a render that a continuation or the wallet has
\* caused.  useSentinel: refreshStatus, a new callback when the vault id or
\* the wallet has changed, is called, and returns at once without a wallet
\* or a vault.  App, when the wallet has changed: without a wallet the list
\* is emptied, with a wallet its vault ids are asked for.  App's poll for the
\* confirmation, when its dependencies have changed: the poll is cleaned up
\* (the answers to its requests are ignored from then on) and starts again if
\* a transaction is submitted.
runEffects ==
    LET walletChanged == effectDeps.connected # connected
        refreshStatusChanged == walletChanged \/ effectDeps.vaultId # selectedVaultId
        pollChanged == pollDeps(effectDeps) # pollDeps(Deps)
        kept == IF pollChanged THEN withoutPolls(fetchCalls) ELSE fetchCalls
    IN  /\ ~EffectsDone
        /\ effectDeps' = Deps
        /\ pollCleared' = (pollCleared /\ ~pollChanged)
        /\ IF refreshStatusChanged /\ connected /\ selectedVaultId # 0
           THEN /\ Len(refreshStatusCalls) < MaxPolls
                /\ refreshStatusBegin
                /\ refreshStatusCalls' = Append(refreshStatusCalls, selectedVaultId)
           ELSE UNCHANGED <<loading, error, refreshStatusCalls>>
        /\ IF ~walletChanged
           THEN /\ fetchCalls' = kept
                /\ UNCHANGED <<vaultIds, vaultIdsLoaded>>
           ELSE IF ~connected
           THEN /\ vaultIds' = <<>>
                /\ vaultIdsLoaded' = FALSE
                /\ fetchCalls' = kept
           ELSE /\ InFlight("connect") < MaxPolls
                /\ vaultIdsLoaded' = FALSE
                /\ fetchCalls' = Append(kept, NewFetch("connect"))
                /\ UNCHANGED vaultIds
        /\ UNCHANGED <<chain, hookStatus, isOwner, sendTxCalls, createVaultCall,
                       selectedVaultId, vaultTxSubmitted, pendingVaultId,
                       creatingVault, showCreateForm, checkInSubmitting,
                       checkInSubmitted, depositSubmitting, createVaultTx,
                       connected>>

\* useWalletConnect: the wallet is disconnected, or connected again.
setConnected(c) ==
    /\ connected # c
    /\ EffectsDone
    /\ connected' = c
    /\ UNCHANGED <<chain, hookState, appState, fetchCalls, createVaultTx, effects>>

\* ---- Hook specification --------------------------------------------------------
\* The wallet owns a vault and opens its page from the list; the chain moves
\* on and executes trigger and setBeneficiary calls; the hook polls, the user
\* clicks the trigger buttons whenever they are enabled, and setBeneficiary
\* is called on the hook.
HookBlockHeights == {0, TIER_1_BLOCKS, TIER_2_BLOCKS}
HookBeneficiaries == {Bob}
HookNewBeneficiaries == {Carol, Wallet}
TriggerOps == {"triggerTier1", "triggerTier2"}

CreateVaultHook ==
    /\ nextVaultId \in CreatableIds
    /\ \E b \in HookBeneficiaries : CreateVault(Wallet, b)
    /\ UNCHANGED frontend

AdvanceBlockHook ==
    /\ \E b \in HookBlockHeights :
          /\ b > blockNumber
          /\ blockNumber' = b
          /\ last' = Outcome("advanceBlock", ZeroAddress, 0, b, "ok", 0)
    /\ UNCHANGED <<ledger, depositCalls>>
    /\ UNCHANGED frontend

TriggerTier1Hook ==
    /\ \E s \in Callers, v \in VaultIds : TriggerTier1(s, v)
    /\ UNCHANGED frontend

TriggerTier2Hook ==
    /\ \E s \in Callers, v \in VaultIds : TriggerTier2(s, v)
    /\ UNCHANGED frontend

\* The chain executes a setBeneficiary transaction the wallet has sent.
SetBeneficiaryHook ==
    /\ \E v \in VaultIds, b \in HookNewBeneficiaries :
          /\ SetBeneficiaryError(Wallet, v, b) = "ok"
          /\ SetBeneficiary(Wallet, v, b)
    /\ UNCHANGED frontend

FetchCounted ==
    /\ \E i \in DOMAIN fetchCalls : fetchCounted(i)
    /\ VaultCards
FetchListed ==
    /\ \E i \in DOMAIN fetchCalls : fetchListed(i)
    /\ VaultCards
FetchFailed ==
    /\ \E i \in DOMAIN fetchCalls : fetchFailed(i)
    /\ VaultCards

\* The status request of a vault card is answered.
CardLoaded == \E id \in cardLoading : cardLoaded(id)

\* "Open Vault" is clicked on a card of the list; the button is disabled
\* while the card is loading.
SelectVault ==
    /\ page = "VaultListPage"
    /\ EffectsDone
    /\ Len(refreshStatusCalls) < MaxPolls
    /\ \E i \in DOMAIN vaultIds :
          /\ vaultIds[i] \notin cardLoading
          /\ handleSelectVault(vaultIds[i])
    /\ VaultCards

ClickTrigger ==
    /\ EffectsDone
    /\ \E i \in SendTxIds, op \in TriggerOps :
          /\ triggerButtonEnabled(op)
          /\ \A j \in SendTxIds : j < i => sendTxCalls[j].pc # "idle"
          /\ sendTxBegin(i, op, u256(0))
          /\ UNCHANGED appState
    /\ VaultCards

\* setBeneficiary is called on the hook, which is scoped to a vault; the
\* scenario has one call of setBeneficiary running at a time.
CallSetBeneficiary ==
    /\ selectedVaultId # 0
    /\ \A j \in SendTxIds : sendTxCalls[j].op # "setBeneficiary"
    /\ \E i \in SendTxIds, b \in HookNewBeneficiaries :
          /\ \A j \in SendTxIds : j < i => sendTxCalls[j].pc # "idle"
          /\ setBeneficiaryBegin(i, b)
    /\ VaultCards

SetBeneficiaryResolved ==
    /\ \E i \in SendTxIds, answer \in ResolveAnswers : setBeneficiaryResolved(i, answer)
    /\ VaultCards

SendTxSimulated ==
    /\ \E i \in SendTxIds, answer \in Answers : sendTxSimulated(i, answer)
    /\ VaultCards
SendTxSent ==
    /\ \E i \in SendTxIds, answer \in Answers : sendTxSent(i, answer)
    /\ VaultCards
SendTxRefreshed ==
    /\ \E i \in SendTxIds : sendTxRefreshed(i)
    /\ VaultCards

NextHook ==
    \/ CreateVaultHook
    \/ AdvanceBlockHook
    \/ TriggerTier1Hook
    \/ TriggerTier2Hook
    \/ SetBeneficiaryHook
    \/ FetchCounted
    \/ FetchListed
    \/ FetchFailed
    \/ CardLoaded
    \/ SelectVault
    \/ PollBegin
    \/ PollEnd
    \/ ClickTrigger
    \/ CallSetBeneficiary
    \/ SetBeneficiaryResolved
    \/ SendTxSimulated
    \/ SendTxSent
    \/ SendTxRefreshed

SpecHook == Init /\ [][NextHook]_vars

\* ---- App specification ---------------------------------------------------------
\* The wallet's owner uses every control the App shows: the list, the create
\* form, the vault page with its check-in, deposit and trigger buttons.  One
\* createVault transaction is submitted through the App; the chain executes
\* it at some later point, while another user creates vaults as well.  The
\* wallet is disconnected and connected again at any time.  The check-ins,
\* deposits and triggers the App sends stay pending within the scenario.  The
\* App makes no use of the hook's setBeneficiary.
AppBeneficiaries == {Alice, Bob}
OtherUser == Bob
AppDepositAmounts == {u256(9)}
AppBlockHeights == {TIER_1_BLOCKS}

\* The calls of sendTx that are running.
SendTxRunning == {i \in SendTxIds : sendTxCalls[i].pc # "idle"}

ClickNewVault ==
    /\ EffectsDone
    /\ page = "VaultListPage"
    /\ showCreateForm' = TRUE
    /\ UNCHANGED <<chain, hookState, vaultIds, vaultIdsLoaded, selectedVaultId,
                   vaultTxSubmitted, pendingVaultId, creatingVault,
                   checkInSubmitting, checkInSubmitted, depositSubmitting,
                   fetchCalls, createVaultTx, connected, effects>>
    /\ VaultCards

\* "Back" on the create form that was opened from the list.
ClickFormBack ==
    /\ EffectsDone
    /\ page = "Create Your Vault (from the list)"
    /\ showCreateForm' = FALSE
    /\ UNCHANGED <<chain, hookState, vaultIds, vaultIdsLoaded, selectedVaultId,
                   vaultTxSubmitted, pendingVaultId, creatingVault,
                   checkInSubmitting, checkInSubmitted, depositSubmitting,
                   fetchCalls, createVaultTx, connected, effects>>
    /\ VaultCards

HandleBack ==
    /\ page \in {"No Vault Found", "Vault detail"}
    /\ EffectsDone
    /\ InFlight("handleBack") < MaxPolls
    /\ handleBack
    /\ VaultCards

\* "Create Vault" is clicked on either create form.  The scenario has one
\* call of createVault running at a time and one transaction submitted.
HandleCreateVault ==
    /\ page \in {"Create Your Vault", "Create Your Vault (from the list)"}
    /\ EffectsDone
    /\ ~creatingVault
    /\ createVaultCall.pc = "idle"
    /\ createVaultTx.pc = "none"
    /\ \E b \in AppBeneficiaries : handleCreateVault(b)
    /\ VaultCards

CreateVaultResolved ==
    /\ \E answer \in ResolveAnswers : createVaultResolved(answer)
    /\ VaultCards
CreateVaultSimulated ==
    /\ \E answer \in Answers : createVaultSimulated(answer)
    /\ VaultCards
CreateVaultSent ==
    /\ \E answer \in Answers : createVaultSent(answer)
    /\ VaultCards
PollVaultConfirmation ==
    /\ InFlight("poll") < MaxPolls
    /\ pollVaultConfirmation
    /\ VaultCards

\* The effects run after the render.
RunEffects ==
    /\ runEffects
    /\ VaultCards

\* The user disconnects the wallet, or connects it again.
Disconnect ==
    /\ setConnected(FALSE)
    /\ VaultCards
Connect ==
    /\ setConnected(TRUE)
    /\ VaultCards

\* "Reset Countdown" is clicked.
ClickCheckIn ==
    /\ EffectsDone
    /\ \E i \in SendTxIds :
          /\ Cardinality(SendTxRunning) < MaxAppSendTx
          /\ page = "Vault detail"
          /\ isOwner
          /\ hookStatus[1].currentStatus = 1
          /\ ~checkInSubmitting
          /\ ~checkInSubmitted
          /\ \A j \in SendTxIds : j < i => sendTxCalls[j].pc # "idle"
          /\ sendTxBegin(i, "checkIn", u256(0))
          /\ checkInSubmitting' = TRUE
          /\ checkInSubmitted' = FALSE
          /\ UNCHANGED <<vaultIds, vaultIdsLoaded, selectedVaultId, vaultTxSubmitted,
                         pendingVaultId, creatingVault, showCreateForm,
                         depositSubmitting>>
    /\ VaultCards

\* The '✓ Submitted' mark of the check-in button expires.
CheckInSubmittedExpires ==
    /\ checkInSubmitted
    /\ checkInSubmitted' = FALSE
    /\ UNCHANGED <<chain, hookState, vaultIds, vaultIdsLoaded, selectedVaultId,
                   vaultTxSubmitted, pendingVaultId, creatingVault, showCreateForm,
                   checkInSubmitting, depositSubmitting, fetchCalls, createVaultTx,
                   connected, effects>>
    /\ VaultCards

\* "Deposit" is clicked with an amount entered.
ClickDeposit ==
    /\ EffectsDone
    /\ \E i \in SendTxIds, amount \in AppDepositAmounts :
          /\ Cardinality(SendTxRunning) < MaxAppSendTx
          /\ page = "Vault detail"
          /\ isOwner
          /\ hookStatus[1].currentStatus # 3
          /\ ~depositSubmitting
          /\ \A j \in SendTxIds : j < i => sendTxCalls[j].pc # "idle"
          /\ sendTxBegin(i, "deposit", amount)
          /\ depositSubmitting' = TRUE
          /\ UNCHANGED <<vaultIds, vaultIdsLoaded, selectedVaultId, vaultTxSubmitted,
                         pendingVaultId, creatingVault, showCreateForm,
                         checkInSubmitting, checkInSubmitted>>
    /\ VaultCards

\* A trigger button is clicked.
ClickTriggerApp ==
    /\ Cardinality(SendTxRunning) < MaxAppSendTx
    /\ ClickTrigger

\* The chain executes the createVault transaction the wallet has sent.
ConfirmCreateVault ==
    /\ createVaultTx.pc = "sent"
    /\ nextVaultId \in VaultIds
    /\ CreateVault(Wallet, createVaultTx.beneficiary)
    /\ createVaultTx' = [createVaultTx EXCEPT !.pc = "confirmed", !.vaultId = nextVaultId]
    /\ UNCHANGED <<hookState, appState, fetchCalls, cardLoading, connected, effects>>

\* The chain executes a createVault transaction of another user; room is
\* left for the vault of the App's transaction.
OtherCreateVault ==
    /\ nextVaultId \in VaultIds
    /\ createVaultTx.pc = "confirmed" \/ (nextVaultId + 1) \in VaultIds
    /\ CreateVault(OtherUser, Carol)
    /\ UNCHANGED frontend

AdvanceBlockApp ==
    /\ \E b \in AppBlockHeights :
          /\ b > blockNumber
          /\ blockNumber' = b
          /\ last' = Outcome("advanceBlock", ZeroAddress, 0, b, "ok", 0)
    /\ UNCHANGED <<ledger, depositCalls>>
    /\ UNCHANGED frontend

NextApp ==
    \/ FetchCounted
    \/ FetchListed
    \/ FetchFailed
    \/ CardLoaded
    \/ ClickNewVault
    \/ ClickFormBack
    \/ SelectVault
    \/ HandleBack
    \/ HandleCreateVault
    \/ CreateVaultResolved
    \/ CreateVaultSimulated
    \/ CreateVaultSent
    \/ PollVaultConfirmation
    \/ RunEffects
    \/ Disconnect
    \/ Connect
    \/ ConfirmCreateVault
    \/ OtherCreateVault
    \/ AdvanceBlockApp
    \/ PollBegin
    \/ PollEnd
    \/ ClickTriggerApp
    \/ ClickCheckIn
    \/ CheckInSubmittedExpires
    \/ ClickDeposit
    \/ SendTxSimulated
    \/ SendTxSent
    \/ SendTxRefreshed

\* The interval of the confirmation poll keeps ticking, and the effects of a
\* render run.
SpecApp ==
    /\ Init
    /\ [][NextApp]_vars
    /\ WF_vars(PollVaultConfirmation)
    /\ WF_vars(RunEffects)

TypeOK ==
    /\ vaultStatus \in [VaultIds -> 0..3]
    /\ blockNumber \in BlockHeights
    /\ nextVaultId \in 1..(Cardinality(VaultIds) + 1)
    /\ depositCalls \in 0..MaxDeposits


\* ---- Properties -----------------------------------------------------------

\* A step that is a contract call; last' then describes that call.
IsCall == last'.op # "advanceBlock"

\* C1: with a block height that never decreases, every vault that is
\* Tier1Released or Finalized has currentBlock - lastHeartbeat >= 26280, and
\* every Finalized vault has currentBlock - lastHeartbeat >= 52560.
C1_NoEarlyRelease ==
    \A v \in VaultIds :
        /\ vaultStatus[v] \in {STATUS_TIER1_RELEASED, STATUS_FINALIZED}
              => blockNumber - vaultHeartbeat[v] >= 26280
        /\ vaultStatus[v] = STATUS_FINALIZED
              => blockNumber - vaultHeartbeat[v] >= 52560

\* A vault finalized at the earliest block the claim allows.
C1_Witness ==
    \E v \in VaultIds :
        /\ vaultStatus[v] = STATUS_FINALIZED
        /\ blockNumber - vaultHeartbeat[v] = 52560

\* C2: a vault's status changes only by the single steps
\* Uninitialized -> Active (createVault), Active -> Tier1Released
\* (triggerTier1), Tier1Released -> Finalized (triggerTier2); it never
\* decreases and never skips a state.
C2_StatusSteps ==
    [][\A v \in VaultIds :
          vaultStatus'[v] # vaultStatus[v] =>
              /\ vaultStatus'[v] = vaultStatus[v] + 1
              /\ last'.err = "ok"
              /\ last'.vaultId = v
              /\ last'.op = CASE vaultStatus[v] = STATUS_UNINITIALIZED -> "createVault"
                              [] vaultStatus[v] = STATUS_ACTIVE -> "triggerTier1"
                              [] vaultStatus[v] = STATUS_TIER1_RELEASED -> "triggerTier2"
                              [] OTHER -> "none"]_vars

\* A vault that has gone through all three steps, the last one just now.
C2_Witness ==
    /\ last.op = "triggerTier2"
    /\ last.err = "ok"
    /\ vaultStatus[last.vaultId] = STATUS_FINALIZED

\* C3: for every vault, tier1Amount + tier2Amount = totalDeposited, exactly.
C3_SplitSum ==
    \A v \in VaultIds : vaultTier1Amt[v] + vaultTier2Amt[v] = vaultDeposited[v]

\* A deposit has produced a total that is not a multiple of ten, so the
\* ten-percent share was rounded.
C3_Witness ==
    /\ last.op = "deposit"
    /\ last.err = "ok"
    /\ vaultTier1Amt[last.vaultId] > 0
    /\ vaultDeposited[last.vaultId] % 10 # 0

\* C4: for every vault, the stored tier1Amount is
\* floor(totalDeposited * 1000 / 10000) of the current totalDeposited.
C4_Tier1Current ==
    \A v \in VaultIds : vaultTier1Amt[v] = MulDiv(vaultDeposited[v], 1000, 10000)

\* Two deposits (9 and 1) have brought a total to 10, with tier 1 at 1.
C4_Witness ==
    /\ last.op = "deposit"
    /\ last.err = "ok"
    /\ depositCalls = 2
    /\ vaultDeposited[last.vaultId] = 10
    /\ vaultTier1Amt[last.vaultId] = 1


\* Every stored field other than the status map is left as it was.
AllButStatusUnchanged ==
    UNCHANGED <<vaultOwner, vaultBeneficiary, vaultHeartbeat, vaultDeposited,
                vaultDepositedMax, vaultTier1Amt, vaultTier2Amt, ownerVaults,
                ownerVaultCount, nextVaultId, feeAmount, feeRecipient, totalVaults>>

\* C5: checkIn, deposit and setBeneficiary by a caller that is not the
\* vault's recorded owner are rejected with NotOwner, whatever the vault's
\* status and the other arguments, and change no state.
C5_NotOwnerRejected ==
    [][(/\ IsCall
        /\ last'.op \in {"checkIn", "deposit", "setBeneficiary"}
        /\ vaultOwner[last'.vaultId] # addressToU256(last'.sender))
          => (last'.err = "NotOwner" /\ UNCHANGED ledger)]_vars

\* A stranger's deposit into an Active vault has been turned down.
C5_Witness ==
    /\ last.op = "deposit"
    /\ last.err = "NotOwner"
    /\ last.arg # u256(0)
    /\ vaultStatus[last.vaultId] = STATUS_ACTIVE

\* C6: the outcome of triggerTier1 and triggerTier2 (error kind, returned
\* amount, resulting status) is the same for every caller in the same
\* ledger state at the same block.
C6_TriggerCallerIndependent ==
    \A v \in VaultIds :
        \A s1, s2 \in Addresses \ {ZeroAddress} :
            /\ TriggerTier1Result(s1, v) = TriggerTier1Result(s2, v)
            /\ TriggerTier2Result(s1, v) = TriggerTier2Result(s2, v)

\* A caller who is not the owner has released tier 1.
C6_Witness ==
    /\ last.op = "triggerTier1"
    /\ last.err = "ok"
    /\ vaultOwner[last.vaultId] # addressToU256(last.sender)

\* C7: triggerTier1 succeeds if and only if the vault is Active and
\* currentBlock - lastHeartbeat >= 26280, and fails with TimeoutNotReached
\* on an Active vault before that; on success it sets the status to
\* Tier1Released, returns the stored tier1Amount and changes nothing else;
\* on a Tier1Released vault it fails with InvalidState.
C7_TriggerTier1 ==
    [][(IsCall /\ last'.op = "triggerTier1") =>
          LET v == last'.vaultId
              due == /\ vaultStatus[v] = STATUS_ACTIVE
                     /\ blockNumber - vaultHeartbeat[v] >= 26280
          IN  /\ (last'.err = "ok") <=> due
              /\ due =>
                    /\ vaultStatus' = [vaultStatus EXCEPT ![v] = STATUS_TIER1_RELEASED]
                    /\ last'.ret = vaultTier1Amt[v]
                    /\ AllButStatusUnchanged
              /\ (vaultStatus[v] = STATUS_ACTIVE /\ ~due)
                    => last'.err = "TimeoutNotReached"
              /\ vaultStatus[v] = STATUS_TIER1_RELEASED
                    => last'.err = "InvalidState"
              /\ ~due => UNCHANGED ledger]_vars

\* Tier 1 of a funded vault released at exactly 26280 blocks of silence.
C7_Witness ==
    /\ last.op = "triggerTier1"
    /\ last.err = "ok"
    /\ last.ret > 0
    /\ blockNumber - vaultHeartbeat[last.vaultId] = 26280

\* C8: triggerTier2 fails with InvalidState on an Active vault even when
\* currentBlock - lastHeartbeat >= 52560, and on Uninitialized and Finalized
\* vaults; a vault becomes Finalized only from Tier1Released, by a
\* triggerTier2 call.
C8_Tier2NeedsTier1 ==
    [][/\ (/\ IsCall
           /\ last'.op = "triggerTier2"
           /\ vaultStatus[last'.vaultId] \in
                 {STATUS_UNINITIALIZED, STATUS_ACTIVE, STATUS_FINALIZED})
             => (last'.err = "InvalidState" /\ UNCHANGED ledger)
       /\ \A v \in VaultIds :
             (vaultStatus'[v] = STATUS_FINALIZED /\ vaultStatus[v] # STATUS_FINALIZED)
                => /\ vaultStatus[v] = STATUS_TIER1_RELEASED
                   /\ last'.op = "triggerTier2"
                   /\ last'.vaultId = v]_vars

\* triggerTier2 refused on an Active vault that has been silent for 52560 blocks.
C8_Witness ==
    /\ last.op = "triggerTier2"
    /\ last.err = "InvalidState"
    /\ vaultStatus[last.vaultId] = STATUS_ACTIVE
    /\ blockNumber - vaultHeartbeat[last.vaultId] >= 52560

\* C9: triggerTier1 leaves lastHeartbeat as it was; on a Tier1Released vault
\* triggerTier2 succeeds exactly when currentBlock - lastHeartbeat >= 52560;
\* when triggerTier1 succeeds at 52560 or more blocks of silence, the vault
\* is, in that same block, Tier1Released with 52560 or more blocks elapsed,
\* which is when triggerTier2 succeeds.
C9_Tier2SameClock ==
    [][/\ (IsCall /\ last'.op = "triggerTier1")
             => /\ vaultHeartbeat' = vaultHeartbeat
                /\ (/\ last'.err = "ok"
                    /\ blockNumber - vaultHeartbeat[last'.vaultId] >= 52560)
                      => /\ vaultStatus'[last'.vaultId] = STATUS_TIER1_RELEASED
                         /\ blockNumber' - vaultHeartbeat'[last'.vaultId] >= 52560
       /\ (/\ IsCall
           /\ last'.op = "triggerTier2"
           /\ vaultStatus[last'.vaultId] = STATUS_TIER1_RELEASED)
             => /\ (last'.err = "ok")
                      <=> (blockNumber - vaultHeartbeat[last'.vaultId] >= 52560)
                /\ last'.err # "ok" => last'.err = "TimeoutNotReached"]_vars

\* Tier 1 has just been released after 52560 or more blocks of silence and
\* tier 2 can be released in this same block.
C9_Witness ==
    /\ last.op = "triggerTier1"
    /\ last.err = "ok"
    /\ blockNumber - vaultHeartbeat[last.vaultId] >= 52560
    /\ TriggerTier2Result(last.sender, last.vaultId).err = "ok"

\* C10: a successful checkIn at block b sets lastHeartbeat to b; while the
\* vault is Active nothing else changes lastHeartbeat; and triggerTier1 on an
\* Active vault fails with TimeoutNotReached at every block below
\* lastHeartbeat + 26280.
C10_CheckInRestartsClock ==
    [][/\ (IsCall /\ last'.op = "checkIn" /\ last'.err = "ok")
             => /\ vaultHeartbeat'[last'.vaultId] = blockNumber
                /\ vaultStatus'[last'.vaultId] = STATUS_ACTIVE
       /\ \A v \in VaultIds :
             (vaultStatus[v] = STATUS_ACTIVE /\ vaultHeartbeat'[v] # vaultHeartbeat[v])
                => (last'.op = "checkIn" /\ last'.err = "ok" /\ last'.vaultId = v)
       /\ (/\ IsCall
           /\ last'.op = "triggerTier1"
           /\ vaultStatus[last'.vaultId] = STATUS_ACTIVE
           /\ blockNumber < vaultHeartbeat[last'.vaultId] + 26280)
             => (last'.err = "TimeoutNotReached" /\ UNCHANGED ledger)]_vars

\* triggerTier1 refused at a block past the first threshold, on a vault
\* whose heartbeat is the early check-in block.
C10_Witness ==
    /\ last.op = "triggerTier1"
    /\ last.err = "TimeoutNotReached"
    /\ vaultHeartbeat[last.vaultId] = EarlyBlock
    /\ blockNumber >= 26280


\* The operations that write to a vault.
MutatingOps == {"checkIn", "deposit", "setBeneficiary", "triggerTier1", "triggerTier2"}
OwnerOps == {"checkIn", "deposit", "setBeneficiary"}

\* All stored fields of one vault.
VaultFields(v) ==
    <<vaultOwner[v], vaultBeneficiary[v], vaultStatus[v], vaultHeartbeat[v],
      vaultDeposited[v], vaultTier1Amt[v], vaultTier2Amt[v]>>

\* C11: once a vault is Finalized no step changes any of its fields, and
\* every checkIn, deposit, setBeneficiary, triggerTier1 and triggerTier2
\* addressed to it is rejected.
C11_FinalizedFrozen ==
    [][\A v \in DOMAIN vaultStatus :
          vaultStatus[v] = STATUS_FINALIZED =>
              /\ VaultFields(v)' = VaultFields(v)
              /\ (IsCall /\ last'.op \in MutatingOps /\ last'.vaultId = v)
                    => last'.err # "ok"]_vars

\* The owner's deposit into a Finalized vault has been turned down.
C11_Witness ==
    /\ last.op = "deposit"
    /\ last.arg # u256(0)
    /\ last.err = "InvalidState"
    /\ vaultStatus[last.vaultId] = STATUS_FINALIZED

\* C12 as stated: every mutating call on a Finalized vault, by any caller,
\* fails with InvalidState and leaves all fields unchanged.
C12_Original ==
    [][(/\ IsCall
        /\ last'.op \in MutatingOps
        /\ vaultStatus[last'.vaultId] = STATUS_FINALIZED)
          => (last'.err = "InvalidState" /\ UNCHANGED ledger)]_vars

\* C12 amended: every mutating call on a Finalized vault is rejected and
\* leaves all fields unchanged; the error is NotOwner for checkIn, deposit
\* and setBeneficiary by a caller that is not the owner, and InvalidState
\* for those three by the owner and for the two triggers by any caller.
C12_FinalizedRejects ==
    [][(/\ IsCall
        /\ last'.op \in MutatingOps
        /\ vaultStatus[last'.vaultId] = STATUS_FINALIZED)
          => /\ UNCHANGED ledger
             /\ last'.err =
                   IF /\ last'.op \in OwnerOps
                      /\ vaultOwner[last'.vaultId] # addressToU256(last'.sender)
                   THEN "NotOwner"
                   ELSE "InvalidState"]_vars

\* A stranger's check-in on a Finalized vault has been answered with NotOwner.
C12_Witness ==
    /\ last.op = "checkIn"
    /\ last.err = "NotOwner"
    /\ vaultStatus[last.vaultId] = STATUS_FINALIZED


\* C14: once a vault is Tier1Released, checkIn, deposit and setBeneficiary
\* on it are rejected, no step changes its lastHeartbeat or returns it to
\* Active, and from block lastHeartbeat + 52560 on triggerTier2 succeeds
\* for every caller, in that block and in every later one, until it is
\* called.
C14_Tier1Irrevocable ==
    [][\A v \in DOMAIN vaultStatus :
          vaultStatus[v] = STATUS_TIER1_RELEASED =>
              /\ vaultHeartbeat'[v] = vaultHeartbeat[v]
              /\ vaultStatus'[v] \in {STATUS_TIER1_RELEASED, STATUS_FINALIZED}
              /\ (IsCall /\ last'.op \in OwnerOps /\ last'.vaultId = v)
                    => (last'.err # "ok" /\ UNCHANGED ledger)
              /\ blockNumber >= vaultHeartbeat[v] + 52560 =>
                    /\ \A s \in Callers : TriggerTier2Result(s, v).err = "ok"
                    /\ (IsCall /\ last'.op = "triggerTier2" /\ last'.vaultId = v)
                          => (last'.err = "ok" /\ vaultStatus'[v] = STATUS_FINALIZED)
                    /\ vaultStatus'[v] = STATUS_TIER1_RELEASED
                          => blockNumber' >= vaultHeartbeat'[v] + 52560]_vars

\* The owner's check-in has been refused on a Tier1Released vault in a block
\* after the one at which tier 2 became due; tier 2 is still releasable.
C14_Witness ==
    /\ last.op = "checkIn"
    /\ last.err = "InvalidState"
    /\ vaultStatus[last.vaultId] = STATUS_TIER1_RELEASED
    /\ blockNumber > vaultHeartbeat[last.vaultId] + 52560
    /\ TriggerTier2Result(last.sender, last.vaultId).err = "ok"


\* C15: every rejected call, of any operation and with any error kind,
\* leaves the whole ledger unchanged: every field of every vault,
\* nextVaultId, the owner index and counts, totalVaults and the fee
\* configuration.
C15_RejectedChangesNothing ==
    [][(IsCall /\ last'.err # "ok") => UNCHANGED ledger]_vars

\* A deposit has been rejected by the overflow check of the tier split,
\* which runs after the new total has been written.
C15_Witness ==
    /\ last.op = "deposit"
    /\ last.err = "ArithmeticOverflow"
    /\ ~AddOverflows(u256(vaultDeposited[last.vaultId]), last.arg)

\* C17 as stated: every created vault has a non-zero beneficiary that differs
\* from its owner, and createVault and setBeneficiary with a zero beneficiary
\* or one equal to the owner are rejected with InvalidBeneficiary (for
\* setBeneficiary, on a vault that has been created).
C17_Original ==
    /\ [](\A v \in DOMAIN vaultStatus :
             vaultStatus[v] # STATUS_UNINITIALIZED =>
                 /\ vaultBeneficiary[v] # 0
                 /\ vaultBeneficiary[v] # vaultOwner[v])
    /\ [][/\ (/\ IsCall
              /\ last'.op = "createVault"
              /\ (isZero(last'.arg) \/ last'.arg = last'.sender))
                => last'.err = "InvalidBeneficiary"
          /\ (/\ IsCall
              /\ last'.op = "setBeneficiary"
              /\ HasVault(last'.vaultId)
              /\ \/ isZero(last'.arg)
                 \/ addressToU256(last'.arg) = vaultOwner[last'.vaultId])
                => last'.err = "InvalidBeneficiary"]_vars

\* C17, amended: every created vault has a non-zero beneficiary that differs
\* from its owner; createVault with a zero beneficiary or the caller as
\* beneficiary fails with InvalidBeneficiary; setBeneficiary with a zero
\* beneficiary or the vault's owner as beneficiary is always rejected: with
\* InvalidBeneficiary when it is the owner's call on an Active vault, with
\* NotOwner when the caller is not the owner, and with InvalidState when the
\* owner calls it on a vault that is not Active.
C17_BeneficiaryValid ==
    /\ [](\A v \in DOMAIN vaultStatus :
             vaultStatus[v] # STATUS_UNINITIALIZED =>
                 /\ vaultBeneficiary[v] # 0
                 /\ vaultBeneficiary[v] # vaultOwner[v])
    /\ [][/\ (/\ IsCall
              /\ last'.op = "createVault"
              /\ (isZero(last'.arg) \/ last'.arg = last'.sender))
                => (last'.err = "InvalidBeneficiary" /\ UNCHANGED ledger)
          /\ (/\ IsCall
              /\ last'.op = "setBeneficiary"
              /\ \/ isZero(last'.arg)
                 \/ addressToU256(last'.arg) = vaultOwner[last'.vaultId])
                => /\ last'.err # "ok"
                   /\ UNCHANGED ledger
                   /\ (/\ vaultOwner[last'.vaultId] = addressToU256(last'.sender)
                       /\ vaultStatus[last'.vaultId] = STATUS_ACTIVE)
                         => last'.err = "InvalidBeneficiary"
                   /\ vaultOwner[last'.vaultId] # addressToU256(last'.sender)
                         => last'.err = "NotOwner"
                   /\ (/\ vaultOwner[last'.vaultId] = addressToU256(last'.sender)
                       /\ vaultStatus[last'.vaultId] # STATUS_ACTIVE)
                         => last'.err = "InvalidState"]_vars

\* The owner of an Active vault has tried to name itself beneficiary.
C17_Witness ==
    /\ last.op = "setBeneficiary"
    /\ last.err = "InvalidBeneficiary"
    /\ last.arg = last.sender
    /\ vaultStatus[last.vaultId] = STATUS_ACTIVE

\* C18: a vault's owner is written only by the createVault that allocates
\* its id, to that call's sender, and never changes afterwards; exactly one
\* address passes the ownership guard of a created vault.
C18_OwnerFixed ==
    /\ [](\A v \in DOMAIN vaultStatus :
             vaultStatus[v] # STATUS_UNINITIALIZED =>
                 Cardinality({a \in Addresses : requireVaultOwner(v, a)}) = 1)
    /\ [][\A v \in DOMAIN vaultStatus :
             vaultOwner'[v] # vaultOwner[v] =>
                 /\ vaultStatus[v] = STATUS_UNINITIALIZED
                 /\ last'.op = "createVault"
                 /\ last'.err = "ok"
                 /\ last'.ret = v
                 /\ vaultOwner'[v] = addressToU256(last'.sender)]_vars

\* The owner has successfully changed the beneficiary of its vault.
C18_Witness ==
    /\ last.op = "setBeneficiary"
    /\ last.err = "ok"
    /\ vaultOwner[last.vaultId] = addressToU256(last.sender)
    /\ vaultBeneficiary[last.vaultId] = addressToU256(last.arg)

\* C25 as stated: a successful deposit(vaultId, amount) raises the vault's
\* totalDeposited by exactly amount and changes nothing but the
\* totalDeposited, tier1Amount and tier2Amount of that vault; a deposit of 0
\* on a vault that has been created is rejected with InvalidAmount; and no
\* step ever lowers a vault's totalDeposited.
C25_Original ==
    [][/\ (last'.op = "deposit" /\ last'.err = "ok") =>
             LET v == last'.vaultId
             IN  /\ last'.arg.max = 0
                 /\ vaultDeposited'[v] = vaultDeposited[v] + last'.arg.n
                 /\ \A w \in DOMAIN vaultStatus \ {v} :
                       /\ vaultDeposited'[w] = vaultDeposited[w]
                       /\ vaultTier1Amt'[w] = vaultTier1Amt[w]
                       /\ vaultTier2Amt'[w] = vaultTier2Amt[w]
                 /\ UNCHANGED <<vaultOwner, vaultBeneficiary, vaultStatus,
                                vaultHeartbeat, ownerVaults, ownerVaultCount,
                                nextVaultId, feeAmount, feeRecipient, totalVaults,
                                blockNumber>>
       /\ (/\ last'.op = "deposit"
           /\ last'.arg = u256(0)
           /\ HasVault(last'.vaultId)) =>
             last'.err = "InvalidAmount"
       /\ \A v \in DOMAIN vaultStatus : vaultDeposited'[v] >= vaultDeposited[v]]_vars

\* C25, amended: a successful deposit(vaultId, amount) has amount > 0, raises
\* the vault's totalDeposited by exactly amount and changes nothing but the
\* totalDeposited, tier1Amount and tier2Amount of that vault; a deposit of 0 is
\* always rejected: with InvalidAmount when the owner makes it on an Active
\* vault, with NotOwner when the caller is not the owner, and with
\* InvalidState when the owner makes it on a vault that is not Active; and no
\* step ever lowers a vault's totalDeposited.
C25_DepositAdds ==
    [][/\ (last'.op = "deposit" /\ last'.err = "ok") =>
             LET v == last'.vaultId
             IN  /\ last'.arg.max = 0
                 /\ last'.arg.n > 0
                 /\ vaultDeposited'[v] = vaultDeposited[v] + last'.arg.n
                 /\ \A w \in DOMAIN vaultStatus \ {v} :
                       /\ vaultDeposited'[w] = vaultDeposited[w]
                       /\ vaultTier1Amt'[w] = vaultTier1Amt[w]
                       /\ vaultTier2Amt'[w] = vaultTier2Amt[w]
                 /\ UNCHANGED <<vaultOwner, vaultBeneficiary, vaultStatus,
                                vaultHeartbeat, ownerVaults, ownerVaultCount,
                                nextVaultId, feeAmount, feeRecipient, totalVaults,
                                blockNumber>>
       /\ (last'.op = "deposit" /\ last'.arg = u256(0)) =>
             /\ last'.err # "ok"
             /\ (/\ requireVaultOwner(last'.vaultId, last'.sender)
                 /\ requireVaultStatus(last'.vaultId, STATUS_ACTIVE)) =>
                   last'.err = "InvalidAmount"
             /\ ~requireVaultOwner(last'.vaultId, last'.sender) =>
                   last'.err = "NotOwner"
             /\ (/\ requireVaultOwner(last'.vaultId, last'.sender)
                 /\ ~requireVaultStatus(last'.vaultId, STATUS_ACTIVE)) =>
                   last'.err = "InvalidState"
       /\ \A v \in DOMAIN vaultStatus : vaultDeposited'[v] >= vaultDeposited[v]]_vars

\* A second successful deposit: the recorded total is larger than the amount
\* just deposited.
C25_Witness ==
    /\ last.op = "deposit"
    /\ last.err = "ok"
    /\ last.arg = u256(9)
    /\ vaultDeposited[last.vaultId] = 1000009
    /\ vaultTier1Amt[last.vaultId] = 100000

\* C26: neither tier1Amount nor tier2Amount of a vault ever decreases: after a
\* successful deposit of any amount > 0 on any recorded total, both are at
\* least what they were before, and they are the split of the new total.
C26_SplitMonotone ==
    [][/\ \A v \in DOMAIN vaultStatus :
             /\ vaultTier1Amt'[v] >= vaultTier1Amt[v]
             /\ vaultTier2Amt'[v] >= vaultTier2Amt[v]
       /\ (last'.op = "deposit" /\ last'.err = "ok") =>
             /\ vaultTier1Amt'[last'.vaultId] >= Tier1Of(vaultDeposited[last'.vaultId])
             /\ vaultTier2Amt'[last'.vaultId] >= Tier2Of(vaultDeposited[last'.vaultId])]_vars

\* A deposit of 1 on a total of 9: tier1Amount steps from 0 to 1 while
\* tier2Amount stays at 9.
C26_Witness ==
    /\ last.op = "deposit"
    /\ last.err = "ok"
    /\ last.arg = u256(1)
    /\ vaultDeposited[last.vaultId] = 10
    /\ vaultTier1Amt[last.vaultId] = 1
    /\ vaultTier2Amt[last.vaultId] = 9

\* C29: a change of the block height alone changes no stored field; a vault
\* leaves Active only in a successful triggerTier1 addressed to it and becomes
\* Finalized only in a successful triggerTier2 addressed to it, however many
\* blocks have passed since its lastHeartbeat.
C29_NoSpontaneousRelease ==
    [][/\ blockNumber' # blockNumber => ledger' = ledger
       /\ \A v \in DOMAIN vaultStatus :
             /\ (vaultStatus[v] = STATUS_ACTIVE /\ vaultStatus'[v] # STATUS_ACTIVE) =>
                   /\ last'.op = "triggerTier1"
                   /\ last'.err = "ok"
                   /\ last'.vaultId = v
                   /\ vaultStatus'[v] = STATUS_TIER1_RELEASED
             /\ (/\ vaultStatus[v] # STATUS_FINALIZED
                 /\ vaultStatus'[v] = STATUS_FINALIZED) =>
                   /\ last'.op = "triggerTier2"
                   /\ last'.err = "ok"
                   /\ last'.vaultId = v]_vars

\* The owner's vault is still Active one block past the second threshold:
\* nobody has called triggerTier1, and the owner's deposit was just accepted.
C29_Witness ==
    /\ last.op = "deposit"
    /\ last.err = "ok"
    /\ vaultStatus[last.vaultId] = STATUS_ACTIVE
    /\ elapsedSince(vaultHeartbeat[last.vaultId], blockNumber) = TIER_2_BLOCKS + 1

\* C32: at the width of u256, an owner's deposit on an Active vault whose new
\* total fits the width while the intermediate total * 1000 does not is
\* rejected with ArithmeticOverflow, and totalDeposited, tier1Amount and
\* tier2Amount (and every other stored field) keep their values from before
\* the call.
C32_MulOverflowRejected ==
    [][(/\ last'.op = "deposit"
        /\ requireVaultOwner(last'.vaultId, last'.sender)
        /\ requireVaultStatus(last'.vaultId, STATUS_ACTIVE)
        /\ last'.arg # u256(0)
        /\ LET T == U256Add(u256(vaultDeposited[last'.vaultId]), last'.arg)
           IN  T.max = 1 /\ T.n <= 0) =>
          /\ last'.err = "ArithmeticOverflow"
          /\ vaultDeposited'[last'.vaultId] = vaultDeposited[last'.vaultId]
          /\ vaultTier1Amt'[last'.vaultId] = vaultTier1Amt[last'.vaultId]
          /\ vaultTier2Amt'[last'.vaultId] = vaultTier2Amt[last'.vaultId]
          /\ ledger' = ledger]_vars

\* A vault holding 9 with its split 0 / 9 has refused a deposit of
\* 2^256 - 10: the total 2^256 - 1 fits, its product with 1000 does not.
C32_Witness ==
    /\ last.op = "deposit"
    /\ last.err = "ArithmeticOverflow"
    /\ last.arg = U256Sub(U256_MAX, u256(9))
    /\ vaultDeposited[last.vaultId] = 9
    /\ vaultTier1Amt[last.vaultId] = 0
    /\ vaultTier2Amt[last.vaultId] = 9
    /\ ~AddOverflows(u256(vaultDeposited[last.vaultId]), last.arg)
    /\ MulOverflows(U256Add(u256(vaultDeposited[last.vaultId]), last.arg),
                    TIER_1_BPS)

\* C33: two successful deposits a1 and a2 by the owner on the same Active
\* vault, in either order, end with totalDeposited = old + a1 + a2 and with
\* tier1Amount and tier2Amount the split of that total: the state after both
\* depends only on the sum, no update is lost, and depositing the sum at once
\* gives the same split (9 and 1 in either order give 1 and 9, as 10 does).
C33_DepositsCommute ==
    [][(/\ last.op = "deposit"
        /\ last.err = "ok"
        /\ last'.op = "deposit"
        /\ last'.err = "ok"
        /\ last'.vaultId = last.vaultId) =>
          LET v == last.vaultId
              old == vaultDeposited[v] - last.arg.n
              sum == last.arg.n + last'.arg.n
          IN  /\ vaultDeposited'[v] = old + sum
              /\ vaultTier1Amt'[v] = ((old + sum) * 1000) \div 10000
              /\ vaultTier2Amt'[v] = (old + sum) - vaultTier1Amt'[v]
              /\ (old = 0 /\ sum = 10) =>
                    (vaultTier1Amt'[v] = 1 /\ vaultTier2Amt'[v] = 9)]_vars

\* Deposits of 1 and then 9: the total is 10 with tier1Amount 1 and
\* tier2Amount 9, as for 9 and then 1 or for 10 at once.
C33_Witness ==
    /\ last.op = "deposit"
    /\ last.err = "ok"
    /\ last.arg = u256(9)
    /\ depositCalls = 2
    /\ vaultDeposited[last.vaultId] = 10
    /\ vaultTier1Amt[last.vaultId] = 1
    /\ vaultTier2Amt[last.vaultId] = 9

\* C35: for an Active vault with currentBlock - lastHeartbeat >= 26280 the
\* owner's checkIn and any caller's triggerTier1 both succeed when run first;
\* run in the same block, exactly one succeeds: after the checkIn,
\* triggerTier1 fails with TimeoutNotReached and the vault stays Active; after
\* the triggerTier1, the owner's checkIn fails with InvalidState and the vault
\* stays Tier1Released.
C35_CheckInRacesTrigger ==
    [][\A v \in VaultIds :
        LET ready == /\ vaultStatus[v] = STATUS_ACTIVE
                     /\ blockNumber - vaultHeartbeat[v] >= 26280
            byOwner == addressToU256(last'.sender) = vaultOwner[v]
        IN  /\ (ready /\ last'.op = "checkIn" /\ last'.vaultId = v /\ byOwner) =>
                  /\ last'.err = "ok"
                  /\ vaultStatus'[v] = STATUS_ACTIVE
                  /\ \A s \in Callers : TriggerTier1Error(s, v)' = "TimeoutNotReached"
            /\ (ready /\ last'.op = "triggerTier1" /\ last'.vaultId = v) =>
                  /\ last'.err = "ok"
                  /\ vaultStatus'[v] = STATUS_TIER1_RELEASED
                  /\ \A s \in Callers :
                        addressToU256(s) = vaultOwner[v] =>
                            CheckInError(s, v)' = "InvalidState"
            /\ (/\ last.op = "checkIn" /\ last.err = "ok" /\ last.vaultId = v
                /\ last'.op = "triggerTier1" /\ last'.vaultId = v) =>
                  /\ last'.err = "TimeoutNotReached"
                  /\ vaultStatus'[v] = STATUS_ACTIVE
            /\ (/\ last.op = "triggerTier1" /\ last.err = "ok" /\ last.vaultId = v
                /\ last'.op = "checkIn" /\ last'.vaultId = v /\ byOwner) =>
                  /\ last'.err = "InvalidState"
                  /\ vaultStatus'[v] = STATUS_TIER1_RELEASED]_vars

\* A vault created at block 0 was released at block 26280, the first block at
\* which the trigger passes, and the owner's checkIn in that same block was
\* refused: the vault is Tier1Released and the heartbeat is still 0.
C35_Witness ==
    /\ last.op = "checkIn"
    /\ last.err = "InvalidState"
    /\ last.vaultId \in VaultIds
    /\ addressToU256(last.sender) = vaultOwner[last.vaultId]
    /\ vaultStatus[last.vaultId] = STATUS_TIER1_RELEASED
    /\ vaultHeartbeat[last.vaultId] = 0
    /\ blockNumber = TIER_1_BLOCKS

\* C36: for every vault that reaches Finalized, the amount returned by its
\* successful triggerTier1 plus the amount returned by its successful
\* triggerTier2 equals its totalDeposited: triggerTier1 returns the stored
\* tier1Amount, no step between the two triggers changes totalDeposited or
\* the split, triggerTier2 returns the stored tier2Amount, and a Finalized
\* vault releases nothing more.
C36_WholeBalanceReleased ==
    [][\A v \in VaultIds :
        /\ (last'.op = "triggerTier1" /\ last'.err = "ok" /\ last'.vaultId = v) =>
              /\ last'.ret = vaultTier1Amt[v]
              /\ vaultStatus'[v] = STATUS_TIER1_RELEASED
        /\ vaultStatus[v] = STATUS_TIER1_RELEASED =>
              /\ vaultDeposited'[v] = vaultDeposited[v]
              /\ vaultTier1Amt'[v] = vaultTier1Amt[v]
              /\ vaultTier2Amt'[v] = vaultTier2Amt[v]
        /\ (last'.op = "triggerTier2" /\ last'.err = "ok" /\ last'.vaultId = v) =>
              /\ vaultStatus[v] = STATUS_TIER1_RELEASED
              /\ vaultStatus'[v] = STATUS_FINALIZED
              /\ last'.ret = vaultTier2Amt[v]
              /\ vaultTier1Amt[v] + last'.ret = vaultDeposited'[v]
        /\ (/\ last.op = "triggerTier1" /\ last.err = "ok" /\ last.vaultId = v
            /\ last'.op = "triggerTier2" /\ last'.err = "ok" /\ last'.vaultId = v) =>
              last.ret + last'.ret = vaultDeposited'[v]
        /\ (/\ vaultStatus[v] = STATUS_FINALIZED
            /\ last'.op \in {"triggerTier1", "triggerTier2"}
            /\ last'.vaultId = v) =>
              last'.err # "ok"]_vars

\* A vault holding 1000000 was finalized: the second release returned 900000
\* next to the 100000 of the first.
C36_Witness ==
    /\ last.op = "triggerTier2"
    /\ last.err = "ok"
    /\ last.ret = 900000
    /\ vaultStatus[last.vaultId] = STATUS_FINALIZED
    /\ vaultTier1Amt[last.vaultId] = 100000
    /\ vaultDeposited[last.vaultId] = 1000000

\* ---- Claims about several vaults (checked under SpecMulti) -------------------
\* C13: the lastHeartbeat of a created vault changes only in a successful
\* checkIn addressed to that vault by its owner while the vault is Active, and
\* then becomes the current block; deposit, setBeneficiary, triggerTier1,
\* triggerTier2, every rejected call and every operation on another vault
\* leave it unchanged.
C13_HeartbeatOnlyByCheckIn ==
    [][\A v \in DOMAIN vaultStatus :
          (HasVault(v) /\ vaultHeartbeat'[v] # vaultHeartbeat[v]) =>
              /\ last'.op = "checkIn"
              /\ last'.err = "ok"
              /\ last'.vaultId = v
              /\ requireVaultOwner(v, last'.sender)
              /\ vaultStatus[v] = STATUS_ACTIVE
              /\ vaultHeartbeat'[v] = blockNumber]_vars

\* Two vaults with heartbeats at different blocks, the later one just
\* refreshed by its owner's checkIn.
C13_Witness ==
    /\ last.op = "checkIn"
    /\ last.err = "ok"
    /\ vaultHeartbeat[last.vaultId] = blockNumber
    /\ \E w \in DOMAIN vaultStatus :
          /\ w # last.vaultId
          /\ HasVault(w)
          /\ vaultHeartbeat[w] < blockNumber
          /\ vaultDeposited[w] > 0

\* C16: a call addressed to vault A, and every createVault, leaves every
\* field (owner, beneficiary, status, lastHeartbeat, deposited and the two
\* entitlements) of every other created vault B unchanged, also when A and B
\* have the same owner.
C16_Isolation ==
    [][\A b \in DOMAIN vaultStatus :
          (HasVault(b) /\ (last'.op = "createVault" \/ last'.vaultId # b)) =>
              VaultFields(b)' = VaultFields(b)]_vars

\* Two vaults of one owner, both funded; one has just been released to tier 1
\* while the other is still Active with its own heartbeat.
C16_Witness ==
    /\ last.op = "triggerTier1"
    /\ last.err = "ok"
    /\ vaultStatus[last.vaultId] = STATUS_TIER1_RELEASED
    /\ \E b \in DOMAIN vaultStatus :
          /\ b # last.vaultId
          /\ vaultOwner[b] = vaultOwner[last.vaultId]
          /\ vaultStatus[b] = STATUS_ACTIVE
          /\ vaultHeartbeat[b] # vaultHeartbeat[last.vaultId]
          /\ vaultDeposited[b] > 0
          /\ vaultDeposited[last.vaultId] > 0

\* C19: createVault hands out the ids 1, 2, 3, ... in order of successful
\* creation, whoever the owner is: the k-th successful creation returns k, an
\* id is never handed out twice, the counter moves only by one and only in a
\* successful creation, and the ids for which hasVault is true are exactly
\* 1 .. nextVaultId - 1.
C19_SequentialIds ==
    /\ [](/\ {v \in DOMAIN vaultStatus : HasVault(v)} = 1..(nextVaultId - 1)
          /\ nextVaultId = totalVaults + 1)
    /\ [][/\ (last'.op = "createVault" /\ last'.err = "ok") =>
                /\ last'.ret = totalVaults + 1
                /\ last'.ret = nextVaultId
                /\ ~HasVault(last'.ret)
                /\ vaultStatus'[last'.ret] # STATUS_UNINITIALIZED
                /\ nextVaultId' = nextVaultId + 1
          /\ nextVaultId' # nextVaultId =>
                (last'.op = "createVault" /\ last'.err = "ok")]_vars

\* The second successful creation, by another owner than the first, has
\* returned id 2.
C19_Witness ==
    /\ last.op = "createVault"
    /\ last.err = "ok"
    /\ last.ret = 2
    /\ nextVaultId = 3
    /\ HasVault(1)
    /\ HasVault(2)
    /\ vaultOwner[1] # vaultOwner[2]

\* The entries of the owner index that getVaultIdByIndex serves: the pairs
\* <<owner, index>> with index < getVaultCount(owner).
IndexEntries ==
    {e \in Callers \X (0..(Cardinality(DOMAIN vaultStatus) - 1)) :
        GetVaultIdByIndex(e[1], e[2]).err = "ok"}

\* C20: for every owner o and index i < getVaultCount(o), getVaultIdByIndex(o, i)
\* is the (i+1)-th vault o created: it is a created vault whose owner is o,
\* entries at larger indexes are later creations, every created vault is in
\* exactly one entry of the index (its owner's), an index at or beyond the
\* count is rejected, a successful creation appends the new id at the
\* creator's count, and no step changes or removes an existing entry.
C20_OwnerIndex ==
    /\ [](/\ \A e \in IndexEntries :
                LET id == GetVaultIdByIndex(e[1], e[2]).ret
                IN  /\ id \in DOMAIN vaultStatus
                    /\ HasVault(id)
                    /\ requireVaultOwner(id, e[1])
                    /\ \A f \in IndexEntries :
                          (f[1] = e[1] /\ f[2] < e[2]) =>
                              GetVaultIdByIndex(f[1], f[2]).ret < id
          /\ \A v \in DOMAIN vaultStatus :
                HasVault(v) =>
                    Cardinality({e \in IndexEntries :
                                    GetVaultIdByIndex(e[1], e[2]).ret = v}) = 1
          /\ \A o \in Callers :
                GetVaultIdByIndex(o, GetVaultCount(o)).err = "IndexOutOfBounds")
    /\ [][/\ \A e \in IndexEntries :
                /\ ownerVaultCount'[e[1]] >= GetVaultCount(e[1])
                /\ ownerVaults'[e[1]][e[2]] = ownerVaults[e[1]][e[2]]
          /\ (last'.op = "createVault" /\ last'.err = "ok") =>
                /\ ownerVaultCount'[last'.sender] = GetVaultCount(last'.sender) + 1
                /\ ownerVaults'[last'.sender][GetVaultCount(last'.sender)] = last'.ret]_vars

\* One owner has created two vaults and the first has since been finalized:
\* the owner's index still holds id 1 at index 0 and id 2 at index 1, and
\* index 2 is out of bounds.
C20_Witness ==
    \E o \in Callers :
        /\ GetVaultCount(o) = 2
        /\ GetVaultIdByIndex(o, 0) = [err |-> "ok", ret |-> 1]
        /\ GetVaultIdByIndex(o, 1) = [err |-> "ok", ret |-> 2]
        /\ GetVaultIdByIndex(o, 2).err = "IndexOutOfBounds"
        /\ vaultStatus[1] = STATUS_FINALIZED

\* C22 as stated: createVault succeeds at most once per caller address; a
\* createVault by an address that has already created a vault is rejected and
\* creates nothing.
C22_Original ==
    [][(last'.op = "createVault" /\ GetVaultCount(last'.sender) > 0) =>
          (last'.err # "ok" /\ ledger' = ledger)]_vars

\* C22 (amended): createVault is not limited to once per caller address.  A
\* createVault is rejected exactly when its beneficiary is zero or the caller,
\* whether or not the caller already owns vaults; a further successful
\* creation adds one vault to the caller's count under the next id and leaves
\* the fields of the vaults created before unchanged.
C22_CreateRepeatable ==
    [][last'.op = "createVault" =>
          /\ (last'.err = "ok") <=>
                (~isZero(last'.arg) /\ last'.arg # last'.sender)
          /\ last'.err = "ok" =>
                /\ ownerVaultCount'[last'.sender] = GetVaultCount(last'.sender) + 1
                /\ last'.ret = nextVaultId
                /\ \A v \in DOMAIN vaultStatus :
                      HasVault(v) => VaultFields(v)' = VaultFields(v)]_vars

\* An address that already owned vault 1 has created vault 2 as well; both
\* exist and belong to it.
C22_Witness ==
    /\ last.op = "createVault"
    /\ last.err = "ok"
    /\ last.ret = 2
    /\ GetVaultCount(last.sender) = 2
    /\ requireVaultOwner(1, last.sender)
    /\ requireVaultOwner(2, last.sender)
    /\ HasVault(1)

\* C24: a createVault whose beneficiary is zero or the caller is rejected with
\* InvalidBeneficiary and allocates nothing: nextVaultId, totalVaults, the
\* owner index and counts and all per-vault maps keep their values, so a
\* successful creation that follows the rejected call gets the id the
\* rejected call would have had.
C24_RejectedCreateAllocatesNothing ==
    [][/\ (/\ last'.op = "createVault"
           /\ (isZero(last'.arg) \/ last'.arg = last'.sender)) =>
             /\ last'.err = "InvalidBeneficiary"
             /\ ledger' = ledger
       /\ (/\ last.op = "createVault"
           /\ last.err = "InvalidBeneficiary"
           /\ last'.op = "createVault"
           /\ last'.err = "ok") =>
             /\ last'.ret = nextVaultId
             /\ last'.ret = totalVaults + 1]_vars

\* After vault 1 exists, its owner asked for a vault with itself as the
\* beneficiary: rejected, and the counter still stands at 2.
C24_Witness ==
    /\ last.op = "createVault"
    /\ last.err = "InvalidBeneficiary"
    /\ last.arg = last.sender
    /\ HasVault(1)
    /\ requireVaultOwner(1, last.sender)
    /\ nextVaultId = 2
    /\ totalVaults = 1
    /\ GetVaultCount(last.sender) = 1

\* The sum of getVaultCount(o) over the owners in S.
RECURSIVE SumVaultCounts(_)
SumVaultCounts(S) ==
    IF S = {} THEN 0
    ELSE LET o == CHOOSE x \in S : TRUE
         IN  GetVaultCount(o) + SumVaultCounts(S \ {o})

\* C31: in every reachable state totalVaults equals nextVaultId - 1, the
\* number of created vaults and the sum of getVaultCount over all owners; it is
\* 0 after deployment and grows by exactly one in every successful createVault
\* and in no other step, so it counts the successful createVault calls.
C31_TotalVaults ==
    /\ [](/\ totalVaults = nextVaultId - 1
          /\ totalVaults = Cardinality({v \in DOMAIN vaultStatus : HasVault(v)})
          /\ totalVaults = SumVaultCounts(DOMAIN ownerVaultCount)
          /\ last.op = "onDeployment" => totalVaults = 0)
    /\ [][IF last'.op = "createVault" /\ last'.err = "ok"
          THEN totalVaults' = totalVaults + 1
          ELSE totalVaults' = totalVaults]_vars

\* Two owners have created one vault each: totalVaults is 2.
C31_Witness ==
    /\ totalVaults = 2
    /\ last.op = "createVault"
    /\ last.err = "ok"
    /\ \A o \in Callers : GetVaultCount(o) = 1

\* ---- Claims about the views (checked under SpecViews) ------------------------
\* C21: getVaultIdByIndex(owner, index) with index >= getVaultCount(owner) fails
\* with IndexOutOfBounds, also for index 0 of an owner without vaults, and an
\* index below the count is served; the call changes no stored field and not
\* the block height.
C21_IndexOutOfBounds ==
    [][last'.op = "getVaultIdByIndex" =>
          LET owner == last'.arg[1]
              index == last'.arg[2]
          IN  /\ (index >= GetVaultCount(owner)) <=> (last'.err = "IndexOutOfBounds")
              /\ (index < GetVaultCount(owner)) <=> (last'.err = "ok")
              /\ ledger' = ledger
              /\ blockNumber' = blockNumber]_vars

\* An owner with one vault was asked for index 1 and the call was rejected.
C21_Witness ==
    /\ last.op = "getVaultIdByIndex"
    /\ last.err = "IndexOutOfBounds"
    /\ last.arg[2] = 1
    /\ GetVaultCount(last.arg[1]) = 1
    /\ \E o \in Callers : GetVaultCount(o) = 0 /\ GetVaultIdByIndex(o, 0).err = "IndexOutOfBounds"

\* C23: a successful createVault(beneficiary) at block b creates a vault whose
\* owner is the caller, with the given beneficiary, status Active,
\* lastHeartbeat b and zero totalDeposited, tier1Amount and tier2Amount; a
\* getStatus of that vault right after it reports exactly these fields with
\* 26280 and 52560 blocks remaining.
C23_CreateVault ==
    [][/\ (last'.op = "createVault" /\ last'.err = "ok") =>
             /\ ~HasVault(last'.ret)
             /\ vaultOwner'[last'.ret] = addressToU256(last'.sender)
             /\ vaultBeneficiary'[last'.ret] = addressToU256(last'.arg)
             /\ vaultStatus'[last'.ret] = STATUS_ACTIVE
             /\ vaultHeartbeat'[last'.ret] = blockNumber
             /\ vaultDeposited'[last'.ret] = 0
             /\ vaultTier1Amt'[last'.ret] = 0
             /\ vaultTier2Amt'[last'.ret] = 0
       /\ (/\ last.op = "createVault"
           /\ last.err = "ok"
           /\ last'.op = "getStatus"
           /\ last'.vaultId = last.ret) =>
             last'.ret = [currentStatus |-> STATUS_ACTIVE,
                          lastHeartbeatBlock |-> blockNumber,
                          currentBlock |-> blockNumber,
                          totalDeposited |-> 0,
                          tier1Amount |-> 0,
                          tier2Amount |-> 0,
                          tier1BlocksRemaining |-> 26280,
                          tier2BlocksRemaining |-> 52560,
                          owner |-> addressToU256(last.sender)]]_vars

\* A vault created at a block above 0 and queried in the same block: Active,
\* nothing deposited, the full countdowns ahead.
C23_Witness ==
    /\ last.op = "getStatus"
    /\ blockNumber > 0
    /\ last.ret.currentStatus = STATUS_ACTIVE
    /\ last.ret.lastHeartbeatBlock = blockNumber
    /\ last.ret.totalDeposited = 0
    /\ last.ret.tier1BlocksRemaining = 26280
    /\ last.ret.tier2BlocksRemaining = 52560
    /\ last.ret.owner = addressToU256(Alice)

\* The larger of 0 and x.
Max0(x) == IF x > 0 THEN x ELSE 0

\* C27: getStatus reports tier1BlocksRemaining = max(0, 26280 - elapsed) and
\* tier2BlocksRemaining = max(0, 52560 - elapsed), where elapsed is
\* max(0, currentBlock - lastHeartbeat): the full threshold at elapsed 0,
\* exactly 0 at the threshold and beyond, never negative.
C27_Countdown ==
    [][last'.op = "getStatus" =>
          LET elapsed == Max0(blockNumber - vaultHeartbeat[last'.vaultId])
              r == last'.ret
          IN  /\ r.lastHeartbeatBlock = vaultHeartbeat[last'.vaultId]
              /\ r.currentBlock = blockNumber
              /\ r.tier1BlocksRemaining = Max0(26280 - elapsed)
              /\ r.tier2BlocksRemaining = Max0(52560 - elapsed)
              /\ r.tier1BlocksRemaining >= 0
              /\ r.tier2BlocksRemaining >= 0
              /\ elapsed = 0 =>
                    (r.tier1BlocksRemaining = 26280 /\ r.tier2BlocksRemaining = 52560)
              /\ elapsed >= 26280 => r.tier1BlocksRemaining = 0
              /\ elapsed >= 52560 => r.tier2BlocksRemaining = 0]_vars

\* A vault queried one block past the second threshold: both countdowns are 0.
C27_Witness ==
    /\ last.op = "getStatus"
    /\ HasVault(last.vaultId)
    /\ last.ret.currentBlock - last.ret.lastHeartbeatBlock = TIER_2_BLOCKS + 1
    /\ last.ret.tier1BlocksRemaining = 0
    /\ last.ret.tier2BlocksRemaining = 0

\* C34: getStatus never fails and never changes state, for any vault id; on
\* an id that was never created it returns status Uninitialized (0) with owner
\* 0, lastHeartbeat 0 and all amounts 0, which the frontend hook turns into
\* "no vault" (a null status), while a created vault gives it a status.
C34_GetStatusTotal ==
    [][last'.op = "getStatus" =>
          LET v == last'.vaultId
              r == last'.ret
          IN  /\ last'.err = "ok"
              /\ ledger' = ledger
              /\ blockNumber' = blockNumber
              /\ v >= nextVaultId =>
                    /\ r.currentStatus = 0
                    /\ r.owner = 0
                    /\ r.lastHeartbeatBlock = 0
                    /\ r.totalDeposited = 0
                    /\ r.tier1Amount = 0
                    /\ r.tier2Amount = 0
                    /\ refreshStatusResult(r) = <<>>
              /\ v < nextVaultId => refreshStatusResult(r) = <<r>>]_vars

\* Vault 1 exists and holds a deposit; id 2, never created, was queried and
\* the answer was the all-zero bundle.
C34_Witness ==
    /\ last.op = "getStatus"
    /\ last.err = "ok"
    /\ last.vaultId = 2
    /\ nextVaultId = 2
    /\ vaultDeposited[1] > 0
    /\ last.ret.currentStatus = 0
    /\ last.ret.owner = 0
    /\ last.ret.totalDeposited = 0
    /\ refreshStatusResult(last.ret) = <<>>

\* C37: at any block and for any vault, getStatus reports
\* tier1BlocksRemaining = 0 exactly when triggerTier1's time guard
\* (elapsed >= 26280) holds and tier2BlocksRemaining = 0 exactly when
\* triggerTier2's time guard (elapsed >= 52560) holds; the TierStepper shows
\* a tier as ready exactly when the corresponding trigger would succeed at
\* that block, and a trigger run right after the query does succeed or fail
\* accordingly.
C37_ReadyIffTriggerSucceeds ==
    /\ [](\A v \in VaultIds :
            LET r == GetStatus(v)
                elapsed == elapsedSince(vaultHeartbeat[v], blockNumber)
            IN  /\ (r.tier1BlocksRemaining = 0) <=> (elapsed >= 26280)
                /\ (r.tier2BlocksRemaining = 0) <=> (elapsed >= 52560)
                /\ \A s \in Callers :
                      /\ (getTier1State(r) = "ready") <=> (TriggerTier1Error(s, v) = "ok")
                      /\ (getTier2State(r) = "ready") <=> (TriggerTier2Error(s, v) = "ok"))
    /\ [][(/\ last.op = "getStatus"
            /\ last'.op \in {"triggerTier1", "triggerTier2"}
            /\ last'.vaultId = last.vaultId) =>
              IF last'.op = "triggerTier1"
              THEN (getTier1State(last.ret) = "ready") <=> (last'.err = "ok")
              ELSE (getTier2State(last.ret) = "ready") <=> (last'.err = "ok")]_vars

\* A released vault queried exactly 52560 blocks after its heartbeat: tier 1
\* shows as done, tier 2 as ready, and triggerTier2 would pass.
C37_Witness ==
    /\ last.op = "getStatus"
    /\ last.ret.currentStatus = STATUS_TIER1_RELEASED
    /\ last.ret.currentBlock - last.ret.lastHeartbeatBlock = TIER_2_BLOCKS
    /\ last.ret.tier2BlocksRemaining = 0
    /\ getTier1State(last.ret) = "done"
    /\ getTier2State(last.ret) = "ready"
    /\ TriggerTier2Error(last.sender, last.vaultId) = "ok"

\* ---- Claims about the hook (checked under SpecHook) ---------------------------
\* C38: in the useSentinel hook, loading is true during the whole of every
\* write operation (sendTx), from its start until its transaction has been
\* sent and the follow-up status refresh has finished, for every interleaving
\* with the periodic refreshStatus poll; so no second transaction is started
\* by a trigger button while one is in flight.
C38_LoadingWhileSending ==
    /\ \A i \in SendTxIds : sendTxCalls[i].pc \in SendTxPcs => loading
    /\ Cardinality({i \in SendTxIds : /\ sendTxCalls[i].pc \in SendTxPcs
                                      /\ sendTxCalls[i].op \in TriggerOps}) <= 1

\* ---- Claims about the App (checked under SpecApp) -----------------------------
\* C39: after App.handleCreateVault has submitted a createVault transaction
\* that is confirmed on-chain, the App, showing its 'Transaction Submitted'
\* page, eventually leaves that page and selects the vault this transaction
\* created, also when createVault calls of other users run between the
\* simulation and the confirmation.  The claim is about an App whose
\* requests for the vault ids, made again and again, are answered again and
\* again, and whose wallet stays connected.
C39_CreatedVaultSelected ==
    (SF_vars(FetchCounted) /\ SF_vars(FetchListed)) =>
        ((createVaultTx.pc = "confirmed" /\ page = "Transaction Submitted")
            ~> ((~vaultTxSubmitted /\ selectedVaultId = createVaultTx.vaultId)
                \/ ~connected))

\* ---- Claims about the host clock (checked under SpecClock) --------------------
\* C28 as stated: when the host reports a block below a vault's
\* lastHeartbeat, elapsed counts as 0: getStatus reports the full 26280 and
\* 52560 blocks remaining, and triggerTier1 and triggerTier2 fail with
\* TimeoutNotReached.
C28_Original ==
    [][(/\ last'.vaultId \in DOMAIN vaultStatus
        /\ HasVault(last'.vaultId)
        /\ blockNumber < vaultHeartbeat[last'.vaultId]) =>
          /\ last'.op = "getStatus" =>
                /\ last'.ret.tier1BlocksRemaining = 26280
                /\ last'.ret.tier2BlocksRemaining = 52560
          /\ last'.op \in {"triggerTier1", "triggerTier2"} =>
                last'.err = "TimeoutNotReached"]_vars

\* C28, amended: when the host reports a block below a vault's lastHeartbeat,
\* elapsed counts as 0: getStatus reports the full 26280 and 52560 blocks
\* remaining, and triggerTier1 and triggerTier2 fail: with TimeoutNotReached
\* when the vault's status admits the trigger (Active for triggerTier1,
\* Tier1Released for triggerTier2) and with InvalidState otherwise.
C28_ClockBelowHeartbeat ==
    [][(/\ last'.vaultId \in DOMAIN vaultStatus
        /\ HasVault(last'.vaultId)
        /\ blockNumber < vaultHeartbeat[last'.vaultId]) =>
          /\ last'.op = "getStatus" =>
                /\ last'.ret.tier1BlocksRemaining = 26280
                /\ last'.ret.tier2BlocksRemaining = 52560
          /\ last'.op \in {"triggerTier1", "triggerTier2"} =>
                /\ last'.err # "ok"
                /\ ledger' = ledger
          /\ (last'.op = "triggerTier1" /\ vaultStatus[last'.vaultId] = STATUS_ACTIVE) =>
                last'.err = "TimeoutNotReached"
          /\ (/\ last'.op = "triggerTier2"
              /\ vaultStatus[last'.vaultId] = STATUS_TIER1_RELEASED) =>
                last'.err = "TimeoutNotReached"
          /\ (last'.op = "triggerTier1" /\ vaultStatus[last'.vaultId] # STATUS_ACTIVE) =>
                last'.err = "InvalidState"
          /\ (/\ last'.op = "triggerTier2"
              /\ vaultStatus[last'.vaultId] # STATUS_TIER1_RELEASED) =>
                last'.err = "InvalidState"]_vars

\* A vault released to tier 1 whose heartbeat is at block 500 while the host
\* reports block 100: triggerTier2 was rejected with TimeoutNotReached.
C28_Witness ==
    /\ last.op = "triggerTier2"
    /\ last.err = "TimeoutNotReached"
    /\ vaultStatus[last.vaultId] = STATUS_TIER1_RELEASED
    /\ vaultHeartbeat[last.vaultId] = 500
    /\ blockNumber = 100
    /\ GetStatus(last.vaultId).tier1BlocksRemaining = 26280
    /\ elapsedSince(500, 100) = 0

\* ---- Claims about progress (checked under SpecLive) ---------------------------
\* C30: if blocks keep coming, the owner makes no successful checkIn from
\* some point on, and triggerTier1 and triggerTier2 keep being attempted
\* (weak fairness on both), then every created vault eventually is Finalized
\* and stays Finalized for ever.
C30_EventuallyFinalized ==
    \A v \in VaultIds :
        [](HasVault(v) => <>[](vaultStatus[v] = STATUS_FINALIZED))

\* A vault whose owner last checked in at block OwnerQuietAfter has been
\* finalized by a caller that is not its owner.
C30_Witness ==
    /\ last.op = "triggerTier2"
    /\ last.err = "ok"
    /\ vaultStatus[last.vaultId] = STATUS_FINALIZED
    /\ vaultHeartbeat[last.vaultId] = OwnerQuietAfter
    /\ ~requireVaultOwner(last.vaultId, last.sender)

====
